---- MODULE Spec2Model ----
(***************************************************************************)
(* The multi-part download engine of dl (Downloader.Fetch and its helpers) *)
(* as a state machine: the output file and the progress journal on disk,   *)
(* the Downloader's fields in memory, the coordinator, one worker per part *)
(* and the periodic journal saver.                                         *)
(*                                                                         *)
(* Offsets are byte offsets from 0.  Byte i of the resource has the value  *)
(* i + 1, so that a byte of the output file that was never written (a 0    *)
(* of the sparse or truncated file) differs from every resource byte.      *)
(***************************************************************************)
EXTENDS Integers, Sequences, FiniteSets, TLC

\* ------------------------------------------------------------- bounds
\* Width of the model's unsigned integers (uint64 in the source).
WordBits == 6
\* Runs of Fetch (processes) against the same disk in one behaviour.
MaxRuns == 2
\* The resource's size (Content-Length) in the runs of the engine.
FileSize == 3
\* Largest file size and parallelism the range planner is applied to.
PlanMaxSize == 20
PlanMaxBoost == 6
\* Longest buffer handed to a writer's Write, the largest offset an offsetWriter
\* starts at, and the Writes one offsetWriter receives.
MaxWrite == 3
MaxOffset == 2
MaxCalls == 2
\* The rateLimitedWriter's chunk (16 KiB in the source), in the model's bytes,
\* and the largest burst of its limiter.
MaxChunk == 2
MaxBurst == 3
\* Largest bandwidth limit and parallelism a limiter is configured from.
MaxLimit == 8
MaxLimitBoost == 4

UintMod == 2 ^ WordBits
\* uint64 arithmetic wraps.
U(x) == x % UintMod

\* dl.Retries when the caller sets none.
DefaultRetries == 3

VARIABLES
    env,                \* the runs' surroundings: [boosts, kinds, runs, retries, sizes,
                        \* ranges]
    uri,                \* dl.URI
    tmpFile,            \* disk: the file at <journal path>.tmp, [exists, doc]
    journalWhole,       \* disk: the file at the journal path is a whole document
    saved,              \* the save under way, and history: the latest completed save
    head,               \* the answer to the metadata probe's HEAD request
    supportsRange,      \* dl.supportsRange
    single,             \* fetchSingleStream: existingSize, the request, the stream
    unlocked,           \* history: the run's journal accesses made without the mutex
    ow,                 \* an offsetWriter and the positioned writes its sink received
    rl,                 \* a rateLimitedWriter, its limiter and its downstream writer
    BandwidthLimit,     \* dl.BandwidthLimit, in the model's bytes per second (0: none)
    outFile,            \* disk: the output file, [exists, data]
    journalFile,        \* disk: the journal file, a DownloadProgress or NoProgress
    run,                \* number of runs started so far
    pc,                 \* the coordinator's position in Fetch / fetchMultiPart
    result,             \* what Fetch returned: "none" while it runs
    fileSize,           \* dl.fileSize
    Boost,              \* dl.Boost
    Resume,             \* dl.Resume
    parts,              \* dl.parts
    progress,           \* dl.progress (NoProgress is nil)
    partDownloaded,     \* dl.partDownloaded, the per-part atomic counters
    resumeFromProgress, \* Fetch's local of that name
    workers,            \* per part: the worker's position, attempt and stream
    saver,              \* the periodic saver goroutine: "off", "running", "stopped"
    saverCancelled,     \* fetchMultiPart's cancel() was called
    cancelled,          \* dl.Context was cancelled by the caller
    errCh,              \* fetchMultiPart's error channel
    loaded,             \* history: the journal as loadProgress returned it in this run
    firstReq,           \* history: per part, the first Range request of this run
    firstWrite,         \* history: per part, the offset of the first WriteAt of this run
    writes              \* history: per part, the offsets of this run's WriteAt calls

vars == <<env, BandwidthLimit, uri, tmpFile, journalWhole, saved, head, supportsRange, single,
          unlocked, ow, rl,
          outFile, journalFile, run, pc, result, fileSize, Boost, Resume, parts,
          progress, partDownloaded, resumeFromProgress, workers, saver, saverCancelled,
          cancelled, errCh, loaded, firstReq, firstWrite, writes>>

\* ------------------------------------------------------------- data
URI == "A"

\* Byte i of the resource.
ResourceByte(i) == i + 1

ResourceData(size) == [i \in 1..size |-> ResourceByte(i - 1)]

\* Byte i of the resource at u: the resources of two URIs differ in every byte.
ResourceByteOf(u, i) == IF u = URI THEN ResourceByte(i) ELSE ResourceByte(i) + 10

ResourceDataOf(u, size) == [i \in 1..size |-> ResourceByteOf(u, i - 1)]

NoParts == [i \in {} |-> 0]

\* A nil *DownloadProgress, or an absent journal file.
NoProgress == [exists |-> FALSE, uri |-> "", fileSize |-> 0, parts |-> NoParts,
               completed |-> FALSE]

NoFile == [exists |-> FALSE, data |-> <<>>]

\* No file at <journal path>.tmp.
NoTmp == [exists |-> FALSE, doc |-> <<>>]

\* No HEAD answer: the status and the Content-Length and Accept-Ranges values.
NoHead == [status |-> 0, contentLength |-> <<>>, acceptRanges |-> <<>>]

\* fetchSingleStream not entered: Fetch's existingSize, the Range header sent
\* (<<>> for none), the response under way and the offsets written, in order.
NoSingle == [pc |-> "none", existing |-> 0, range |-> <<>>, status |-> 0,
             offset |-> 0, next |-> 0, limit |-> 0, wrote |-> <<>>]

\* No offsetWriter yet: the offset it is built with, its offset, and the
\* WriteAt calls its sink has received (position, length, bytes reported).
NoOffsetWriter == [made |-> FALSE, offset |-> 0, start |-> 0, calls |-> <<>>]

\* No rateLimitedWriter yet: its limiter's burst (0 for a nil limiter), whether
\* its context is cancelled, len(p) and written of the Write under way, the
\* chunk sizes the limiter admitted, the chunks handed downstream with the bytes
\* downstream reported, and what Write returned.
NoRateLimited == [pc |-> "none", rate |-> 0, burst |-> 0, cancelled |-> FALSE, len |-> 0,
                  written |-> 0, admitted |-> <<>>, forwarded |-> <<>>,
                  ret |-> 0, err |-> "nil"]

\* No save has happened: the counters and flags of the latest completed save,
\* those the save under way has taken, and the pieces it has written.
NoSaved == [counters |-> NoParts, flags |-> NoParts,
            takenCounters |-> NoParts, takenFlags |-> NoParts, written |-> 0]

HasPart(pr, i) == pr.exists /\ i \in DOMAIN pr.parts

\* ------------------------------------------------------------- range planner
\* A planner whose last part is one chunk long, like the others.
calculatePartBoundary_LastByChunk(size, boost, part) ==
    LET chunkSize == size \div boost
        startByte == U(part * chunkSize)
    IN  [startByte |-> startByte, endByte |-> U(startByte + chunkSize - 1)]

\* calculatePartBoundary with dl.fileSize = size and dl.Boost = boost.
calculatePartBoundary(size, boost, part) ==
    LET chunkSize == size \div boost
        startByte == U(part * chunkSize)
    IN  [startByte |-> startByte,
         endByte   |-> IF part = boost - 1
                       THEN U(size - 1)
                       ELSE U(startByte + chunkSize - 1)]

\* Fetch, the planning loop: dl.parts[i] for i in range dl.Boost.
PlanParts(size, boost) ==
    [i \in 0..(boost - 1) |-> calculatePartBoundary(size, boost, i)]

PartSize(p) == U(p.endByte - p.startByte + 1)

\* ------------------------------------------------------------- journal
initProgress(u, size, ps) ==
    [exists    |-> TRUE,
     uri       |-> u,
     fileSize  |-> size,
     parts     |-> [i \in DOMAIN ps |->
                       [index |-> i, startByte |-> ps[i].startByte,
                        endByte |-> ps[i].endByte, downloaded |-> 0,
                        completed |-> FALSE]],
     completed |-> FALSE]

\* A loadProgress that compares the URI only.
loadProgress_URIOnly(jf, u, size) ==
    IF jf.exists /\ jf.uri = u THEN jf ELSE NoProgress

\* What loadProgress leaves in dl.progress, given the journal file on disk.
loadProgress(jf, u, size) ==
    IF jf.exists /\ jf.uri = u /\ jf.fileSize = size THEN jf ELSE NoProgress

\* A saveProgress that does not read the counters.
saveProgress_NoSnapshot(pr, counters) == pr

\* The journal after saveProgress snapshotted the counters into it; the same
\* document is what the rename puts at the journal path.
saveProgress(pr, counters) ==
    IF ~pr.exists THEN pr
    ELSE [pr EXCEPT !.parts =
            [i \in DOMAIN pr.parts |->
                IF i \in DOMAIN counters
                THEN [pr.parts[i] EXCEPT !.downloaded = counters[i]]
                ELSE pr.parts[i]]]

updatePartProgress(pr, index, downloaded, completed) ==
    IF HasPart(pr, index)
    THEN [pr EXCEPT !.parts[index].downloaded = downloaded,
                    !.parts[index].completed = completed]
    ELSE pr

\* json.MarshalIndent of a DownloadProgress, as the tokens of the document in
\* the order they are written: the top-level fields, one entry per part in the
\* order of the keys, and the closing brace.
Marshal(pr) ==
    LET n == Cardinality(DOMAIN pr.parts)
        keys == CHOOSE ks \in [1..n -> DOMAIN pr.parts] :
                    \A a, b \in 1..n : a < b => ks[a] < ks[b]
    IN  <<[tok |-> "open", key |-> 0,
           value |-> [uri |-> pr.uri, fileSize |-> pr.fileSize,
                      completed |-> pr.completed]]>>
        \o [a \in 1..n |-> [tok |-> "part", key |-> keys[a],
                             value |-> pr.parts[keys[a]]]]
        \o <<[tok |-> "close", key |-> 0, value |-> <<>>]>>

\* json.Unmarshal succeeds: the document is there from its first token to its
\* closing brace.
Parseable(doc) ==
    /\ Len(doc) >= 2
    /\ doc[1].tok = "open"
    /\ doc[Len(doc)].tok = "close"

\* json.Unmarshal into a DownloadProgress.
Unmarshal(doc) ==
    LET entries == {a \in 2..(Len(doc) - 1) : doc[a].tok = "part"}
    IN  [exists    |-> TRUE,
         uri       |-> doc[1].value.uri,
         fileSize  |-> doc[1].value.fileSize,
         parts     |-> [k \in {doc[a].key : a \in entries} |->
                           doc[CHOOSE a \in entries : doc[a].key = k].value],
         completed |-> doc[1].value.completed]

\* saveProgress as a step: the in-memory journal and the journal file after it.
Save ==
    /\ progress' = saveProgress(progress, partDownloaded)
    /\ journalFile' = IF progress.exists THEN progress' ELSE journalFile

\* ------------------------------------------------------------- output file
\* os.File.WriteAt of one byte: a write past the end extends the file with zeros.
WriteAt(f, off, b) ==
    IF off < Len(f.data)
    THEN [f EXCEPT !.data[off + 1] = b]
    ELSE [f EXCEPT !.data = f.data \o [i \in 1..(off - Len(f.data)) |-> 0] \o <<b>>]

\* createSparseFile / Truncate on the file Fetch has just created: size zero bytes.
SizedFile(size) == [exists |-> TRUE, data |-> [i \in 1..size |-> 0]]

\* ------------------------------------------------------------- part fetcher
\* A worker: its position, fetchPartRange's i and lastErr, the delays it has
\* slept, and the response's status and body of the attempt under way.
NoWorker == [pc |-> "none", attempt |-> 0, offset |-> 0, next |-> 0, limit |-> 0,
             status |-> 0, lastErr |-> "none", slept |-> <<>>]

\* A fetchPartOnce that never finds its part whole in the journal.
AlreadyDownloaded_Never(pr, index, part) == FALSE

\* A fetchPartOnce that restarts a resumed part at its start_byte.
EffectiveStart_FromPartStart(pr, index, part) == part.startByte

\* fetchPartOnce: the first byte it asks for and writes at.
EffectiveStart(pr, index, part) ==
    IF HasPart(pr, index) /\ pr.parts[index].downloaded > 0
    THEN U(part.startByte + pr.parts[index].downloaded)
    ELSE part.startByte

\* fetchPartOnce: the journal already holds the whole part.
AlreadyDownloaded(pr, index, part) ==
    /\ HasPart(pr, index)
    /\ pr.parts[index].downloaded > 0
    /\ pr.parts[index].downloaded >= PartSize(part)

\* What may come back for "Range: bytes=s-e": a status and the resource bytes
\* first..limit-1 as the body.  "206" is the answer of a server that honours the
\* range, "200" of one that ignores it and sends the whole resource, "short" of one
\* that ends the body cleanly before the range's end; "status" is any other
\* status and "error" a transport error (status 0).
Responses(kinds, s, e, size) ==
       {[status |-> 206, first |-> s, limit |-> e + 1] : k \in kinds \cap {"206"}}
  \cup {[status |-> 200, first |-> 0, limit |-> size] : k \in kinds \cap {"200"}}
  \cup {[status |-> 206, first |-> s, limit |-> l] :
            l \in IF "short" \in kinds THEN s..e ELSE {}}
  \cup {[status |-> 503, first |-> 0, limit |-> 0] : k \in kinds \cap {"status"}}
  \cup {[status |-> 0, first |-> 0, limit |-> 0] : k \in kinds \cap {"error"}}

\* A retry controller that sleeps one second before every retry.
BackoffDelay_Constant(i) == 1

\* fetchPartRange: the seconds slept after attempt i failed.
BackoffDelay(i) == 2 ^ i

\* An error queue with room for half the workers' errors.
ErrChCapacity_Half == Boost \div 2

\* An unbuffered error queue: make(chan error).
ErrChCapacity_Unbuffered == 0 * Boost

\* fetchMultiPart: errCh := make(chan error, dl.Boost).
ErrChCapacity == Boost

\* fetchPartRange after attempt i failed with error kind: lastErr is set; if
\* i < dl.Retries - 1 the worker sleeps the backoff delay and attempts again,
\* otherwise it returns the error wrapping lastErr, which goes to errCh (the
\* send waits while the queue is full).
AttemptFailed(p, kind) ==
    IF workers[p].attempt < env.retries - 1
    THEN /\ workers' = [workers EXCEPT ![p] =
                           [NoWorker EXCEPT
                               !.pc = "begin",
                               !.attempt = workers[p].attempt + 1,
                               !.lastErr = kind,
                               !.slept = Append(workers[p].slept,
                                                BackoffDelay(workers[p].attempt))]]
         /\ errCh' = errCh
    ELSE /\ workers' = [workers EXCEPT ![p] =
                           [NoWorker EXCEPT !.pc = "failed",
                                            !.attempt = workers[p].attempt,
                                            !.lastErr = kind,
                                            !.slept = workers[p].slept]]
         /\ Len(errCh) < ErrChCapacity
         /\ errCh' = Append(errCh, workers'[p].lastErr)

\* A coordinator that does not wait for its workers.
Finished_NoWait(w) == TRUE

\* wg.Wait: the worker's goroutine has returned (or was never launched).
Finished(w) == w.pc \in {"skipped", "done", "failed"}

\* ------------------------------------------------------------- initial states
NoHistory == [i \in {} |-> <<>>]

DownloaderInit ==
    /\ result = "none"
    /\ Resume = FALSE
    /\ parts = NoParts
    /\ progress = NoProgress
    /\ partDownloaded = NoParts
    /\ resumeFromProgress = FALSE
    /\ workers = NoParts
    /\ saver = "off"
    /\ saverCancelled = FALSE
    /\ cancelled = FALSE
    /\ errCh = <<>>
    /\ loaded = NoProgress
    /\ firstReq = NoHistory
    /\ firstWrite = NoHistory
    /\ writes = NoHistory
    /\ saved = NoSaved
    /\ head = NoHead
    /\ single = NoSingle
    /\ unlocked = {}
    /\ ow = NoOffsetWriter
    /\ rl = NoRateLimited

\* A Downloader before its probe, with no bandwidth limit.
MemoryInit ==
    /\ DownloaderInit
    /\ supportsRange = FALSE
    /\ BandwidthLimit = 0

DiskInit ==
    /\ outFile = NoFile
    /\ journalFile = NoProgress
    /\ journalWhole = TRUE
    /\ tmpFile = NoTmp

\* Every server answer and every parallelism of the model.
AllKinds == {"206", "200", "short", "status", "error"}
HonestKinds == {"206", "error"}

\* The engine's runs: the server honours ranges, the network may fail, the
\* process may crash and be started again.
Init ==
    /\ env = [boosts |-> {2}, kinds |-> HonestKinds, runs |-> MaxRuns, retries |-> DefaultRetries,
              sizes |-> [u \in {URI} |-> FileSize], ranges |-> {TRUE}]
    /\ uri = URI
    /\ fileSize = FileSize
    /\ Boost = 0
    /\ run = 0
    /\ pc = "idle"
    /\ DiskInit
    /\ MemoryInit

\* The same with a server that may also ignore the range (200 and the whole
\* body), end a body early, or answer with another status; one attempt a part.
InitAnyServer ==
    /\ env = [boosts |-> {2}, kinds |-> AllKinds, runs |-> MaxRuns, retries |-> 1,
              sizes |-> [u \in {URI} |-> FileSize], ranges |-> {TRUE}]
    /\ uri = URI
    /\ fileSize = FileSize
    /\ Boost = 0
    /\ run = 0
    /\ pc = "idle"
    /\ DiskInit
    /\ MemoryInit

\* The same with runs that differ in their parallelism; one attempt a part.
InitReplan ==
    /\ env = [boosts |-> {2, 3}, kinds |-> HonestKinds, runs |-> MaxRuns, retries |-> 1,
              sizes |-> [u \in {URI} |-> FileSize], ranges |-> {TRUE}]
    /\ uri = URI
    /\ fileSize = FileSize
    /\ Boost = 0
    /\ run = 0
    /\ pc = "idle"
    /\ DiskInit
    /\ MemoryInit

\* The same with runs for different URIs that share the file name: the resource
\* at "B" is as long as the one at "A", the one at "C" a byte longer; one attempt
\* a part.
InitOtherURI ==
    /\ env = [boosts |-> {2}, kinds |-> HonestKinds, runs |-> MaxRuns, retries |-> 1,
              sizes |-> [u \in {URI, "B", "C"} |->
                            IF u = "C" THEN FileSize + 1 ELSE FileSize],
              ranges |-> {TRUE}]
    /\ uri = URI
    /\ fileSize = FileSize
    /\ Boost = 0
    /\ run = 0
    /\ pc = "idle"
    /\ DiskInit
    /\ MemoryInit

\* The journal alone: Downloaders for the URIs "A" and "B" and the sizes
\* FileSize and FileSize + 1, in any pairing, save and load at one journal path.
InitJournal ==
    /\ env = [boosts |-> {2}, kinds |-> {}, runs |-> MaxRuns, retries |-> 0,
              sizes |-> [u \in {URI, "B"} |->
                            IF u = URI THEN FileSize ELSE FileSize + 1],
              ranges |-> {TRUE}]
    /\ uri = URI
    /\ fileSize = FileSize
    /\ Boost = 0
    /\ run = 0
    /\ pc = "idle"
    /\ DiskInit
    /\ MemoryInit

\* Runs of one or two connections for the URIs "A" and "B" at one file name, "B"
\* a byte longer than "A", against any server; one attempt a part.
InitSingle ==
    /\ env = [boosts |-> {1, 2}, kinds |-> AllKinds, runs |-> MaxRuns, retries |-> 1,
              sizes |-> [u \in {URI, "B"} |->
                            IF u = URI THEN FileSize ELSE FileSize + 1],
              ranges |-> {TRUE}]
    /\ uri = URI
    /\ fileSize = FileSize
    /\ Boost = 0
    /\ run = 0
    /\ pc = "idle"
    /\ DiskInit
    /\ MemoryInit

\* The engine's runs when the output file may be deleted between them; one
\* attempt a part.
InitFileLost ==
    /\ env = [boosts |-> {2}, kinds |-> HonestKinds, runs |-> MaxRuns, retries |-> 1,
              sizes |-> [u \in {URI} |-> FileSize], ranges |-> {TRUE}]
    /\ uri = URI
    /\ fileSize = FileSize
    /\ Boost = 0
    /\ run = 0
    /\ pc = "idle"
    /\ DiskInit
    /\ MemoryInit

\* The engine's runs with one more start of the process.
InitRerun ==
    /\ env = [boosts |-> {2}, kinds |-> HonestKinds, runs |-> MaxRuns + 1,
              retries |-> DefaultRetries,
              sizes |-> [u \in {URI} |-> FileSize], ranges |-> {TRUE}]
    /\ uri = URI
    /\ fileSize = FileSize
    /\ Boost = 0
    /\ run = 0
    /\ pc = "idle"
    /\ DiskInit
    /\ MemoryInit

\* The probe: Fetch is called for one URI whose server answers the HEAD request
\* in any way; the size and the range support come from the answer.
InitProbe ==
    /\ env = [boosts |-> {2}, kinds |-> {}, runs |-> MaxRuns, retries |-> 1,
              sizes |-> [u \in {URI} |-> 0], ranges |-> {TRUE, FALSE}]
    /\ uri = URI
    /\ fileSize = 0
    /\ Boost = 0
    /\ run = 0
    /\ pc = "idle"
    /\ DiskInit
    /\ MemoryInit

\* The writers alone: no Downloader runs.
InitWriters ==
    /\ env = [boosts |-> {}, kinds |-> {}, runs |-> 0, retries |-> 0,
              sizes |-> [u \in {URI} |-> 0], ranges |-> {TRUE}]
    /\ uri = URI
    /\ fileSize = 0
    /\ Boost = 0
    /\ run = 0
    /\ pc = "idle"
    /\ DiskInit
    /\ MemoryInit

\* A Downloader after the probe, with any bandwidth limit and parallelism
\* within the bounds, on a server with or without range support.
InitLimited ==
    /\ env = [boosts |-> 1..MaxLimitBoost, kinds |-> {}, runs |-> 0, retries |-> 0,
              sizes |-> [u \in {URI} |-> 0], ranges |-> BOOLEAN]
    /\ uri = URI
    /\ fileSize = 0
    /\ Boost \in env.boosts
    /\ run = 0
    /\ pc = "idle"
    /\ DiskInit
    /\ DownloaderInit
    /\ supportsRange \in env.ranges
    /\ BandwidthLimit \in 0..MaxLimit

\* One run of the engine in which a failed attempt is retried once.
InitLive ==
    /\ env = [boosts |-> {2}, kinds |-> HonestKinds, runs |-> 1, retries |-> 2,
              sizes |-> [u \in {URI} |-> FileSize], ranges |-> {TRUE}]
    /\ uri = URI
    /\ fileSize = FileSize
    /\ Boost = 0
    /\ run = 0
    /\ pc = "idle"
    /\ DiskInit
    /\ MemoryInit

\* The range planner alone, on any size and parallelism within the bounds.
InitPlan ==
    /\ env = [boosts |-> 1..PlanMaxBoost, kinds |-> {}, runs |-> 0, retries |-> 0,
              sizes |-> [u \in {URI} |-> 0], ranges |-> {TRUE}]
    /\ uri = URI
    /\ fileSize \in 0..PlanMaxSize
    /\ Boost \in 1..PlanMaxBoost
    /\ run = 0
    /\ pc = "calculate"
    /\ DiskInit
    /\ MemoryInit

\* calculatePartBoundary(0), ..., calculatePartBoundary(Boost - 1).
CalculateParts ==
    /\ pc = "calculate"
    /\ parts' = PlanParts(fileSize, Boost)
    /\ pc' = "calculated"
    /\ UNCHANGED <<env, BandwidthLimit, head, ow, rl, supportsRange, single, unlocked,
                   uri, tmpFile, journalWhole, saved,
                   outFile, journalFile, run, result, fileSize, Boost, Resume,
                   progress, partDownloaded, resumeFromProgress, workers, saver,
                   saverCancelled, cancelled, errCh, loaded, firstReq, firstWrite,
                   writes>>

\* ------------------------------------------------------------- coordinator
\* A process starts: a Downloader for URI u with the given Boost and Resume on;
\* the metadata probe has answered with the resource's size and Accept-Ranges:
\* bytes.
StartRun(b, u) ==
    /\ pc \in {"idle", "done"}
    /\ run < env.runs
    /\ b \in env.boosts
    /\ u \in DOMAIN env.sizes
    /\ uri' = u
    /\ fileSize' = env.sizes[u]
    /\ run' = run + 1
    /\ pc' = "plan"
    /\ result' = "none"
    /\ Boost' = b
    /\ Resume' = TRUE
    /\ parts' = NoParts
    /\ progress' = NoProgress
    /\ partDownloaded' = NoParts
    /\ resumeFromProgress' = FALSE
    /\ workers' = NoParts
    /\ saver' = "off"
    /\ saverCancelled' = FALSE
    /\ cancelled' = FALSE
    /\ errCh' = <<>>
    /\ loaded' = NoProgress
    /\ firstReq' = NoHistory
    /\ firstWrite' = NoHistory
    /\ writes' = NoHistory
    /\ supportsRange' \in env.ranges
    /\ single' = NoSingle
    /\ unlocked' = {}
    /\ UNCHANGED <<env, BandwidthLimit, head, ow, rl, tmpFile, journalWhole, saved, outFile,
                   journalFile>>

\* Fetch and fetchMultiPart go part by part; otherwise fetchSingleStream.
MultiPart == Boost > 1 /\ supportsRange

\* Fetch: dl.parts and dl.partDownloaded are built for a multi-part fetch.
FetchPlan ==
    /\ pc = "plan"
    /\ IF MultiPart
       THEN /\ parts' = PlanParts(fileSize, Boost)
            /\ partDownloaded' = [i \in 0..(Boost - 1) |-> 0]
       ELSE UNCHANGED <<parts, partDownloaded>>
    /\ pc' = "prepare"
    /\ UNCHANGED <<env, BandwidthLimit, head, ow, rl, supportsRange, single, unlocked,
                   uri, tmpFile, journalWhole, saved,
                   outFile, journalFile, run, result, fileSize, Boost, Resume,
                   progress, resumeFromProgress, workers, saver, saverCancelled,
                   cancelled, errCh, loaded, firstReq, firstWrite, writes>>

\* A Fetch that takes no existing file for complete.
FileComplete_Never(existingSize, size) == FALSE

\* Fetch: the existing output file is as long as the resource, or longer.
FileComplete(existingSize, size) == existingSize >= size

\* A Fetch that keeps the loaded journal although the output file is missing.
DiscardProgress_Keep(pr) == pr

\* Fetch: "Progress file found but download file is missing, starting fresh".
DiscardProgress(pr) == NoProgress

\* Fetch from the load of the journal, which left pr in dl.progress: stat the
\* output file, open or create it.
Prepare(prLoaded) ==
    /\ pc = "prepare"
    /\ LET pr == prLoaded
       IN  /\ loaded' = pr
           /\ single' = [NoSingle EXCEPT !.existing =
                            IF Resume /\ outFile.exists THEN Len(outFile.data) ELSE 0]
           /\ IF Resume /\ outFile.exists
              THEN /\ UNCHANGED <<outFile, Resume>>
                   /\ progress' = pr
                   /\ IF pr.exists /\ ~pr.completed
                      THEN /\ resumeFromProgress' = TRUE
                           /\ pc' = "truncate"
                           /\ result' = result
                      ELSE /\ resumeFromProgress' = FALSE
                           /\ IF FileComplete(Len(outFile.data), fileSize)
                              THEN pc' = "done" /\ result' = "already"
                              ELSE pc' = "truncate" /\ result' = result
              ELSE /\ progress' = DiscardProgress(pr)
                   /\ resumeFromProgress' = FALSE
                   /\ Resume' = FALSE
                   /\ outFile' = [exists |-> TRUE, data |-> <<>>]
                   /\ pc' = "truncate"
                   /\ result' = result
    /\ UNCHANGED <<env, BandwidthLimit, head, ow, rl, supportsRange, unlocked,
                   uri, tmpFile, journalWhole, saved,
                   journalFile, run, fileSize, Boost, parts, partDownloaded,
                   workers, saver, saverCancelled, cancelled, errCh, firstReq,
                   firstWrite, writes>>

\* Fetch: load the journal, stat the output file, open or create it.
FetchPrepare ==
    /\ pc = "prepare"
    /\ Prepare(IF Resume THEN loadProgress(journalFile, uri, fileSize) ELSE NoProgress)

\* Fetch: a file that is not resumed is sized to the resource.
FetchTruncate ==
    /\ pc = "truncate"
    /\ outFile' = IF MultiPart /\ ~Resume THEN SizedFile(fileSize) ELSE outFile
    /\ pc' = "initProgress"
    /\ UNCHANGED <<env, BandwidthLimit, head, ow, rl, supportsRange, single, unlocked,
                   uri, tmpFile, journalWhole, saved,
                   journalFile, run, result, fileSize, Boost, Resume, parts,
                   progress, partDownloaded, resumeFromProgress, workers, saver,
                   saverCancelled, cancelled, errCh, loaded, firstReq, firstWrite,
                   writes>>

\* Fetch: a run without a journal initialises and saves one; a resumed run
\* restores the counters from the journal.
FetchInitProgress ==
    /\ pc = "initProgress"
    /\ IF ~progress.exists /\ MultiPart
       THEN /\ progress' = saveProgress(initProgress(uri, fileSize, parts), partDownloaded)
            /\ journalFile' = progress'
       ELSE UNCHANGED <<progress, journalFile>>
    /\ partDownloaded' =
          IF resumeFromProgress /\ progress'.exists
          THEN [i \in DOMAIN parts |->
                   IF HasPart(progress', i) THEN progress'.parts[i].downloaded
                   ELSE partDownloaded[i]]
          ELSE partDownloaded
    /\ pc' = "launch"
    /\ UNCHANGED <<env, BandwidthLimit, head, ow, rl, supportsRange, single, unlocked,
                   uri, tmpFile, journalWhole, saved,
                   outFile, run, result, fileSize, Boost, Resume, parts,
                   resumeFromProgress, workers, saver, saverCancelled, cancelled,
                   errCh, loaded, firstReq, firstWrite, writes>>

\* fetchMultiPart: the saver starts and a worker is launched for every part the
\* resumed journal does not mark completed.
FetchLaunch ==
    /\ pc = "launch"
    /\ MultiPart
    /\ single' = NoSingle
    /\ unlocked' = IF resumeFromProgress /\ progress.exists
                   THEN unlocked \cup {"launch loop reads completed"}
                   ELSE unlocked
    /\ saver' = "running"
    /\ workers' = [i \in DOMAIN parts |->
                      IF resumeFromProgress /\ HasPart(progress, i)
                         /\ progress.parts[i].completed
                      THEN [NoWorker EXCEPT !.pc = "skipped"]
                      ELSE [NoWorker EXCEPT !.pc = "begin"]]
    /\ firstReq' = [i \in DOMAIN parts |-> <<>>]
    /\ firstWrite' = [i \in DOMAIN parts |-> <<>>]
    /\ writes' = [i \in DOMAIN parts |-> {}]
    /\ pc' = "wait"
    /\ UNCHANGED <<env, BandwidthLimit, head, ow, rl, supportsRange,
                   uri, tmpFile, journalWhole, saved,
                   outFile, journalFile, run, result, fileSize, Boost, Resume,
                   parts, progress, partDownloaded, resumeFromProgress,
                   saverCancelled, cancelled, errCh, loaded>>

\* fetchMultiPart: wg.Wait returns, cancel(), close(errCh).
FetchWait ==
    /\ pc = "wait"
    /\ \A i \in DOMAIN workers : Finished(workers[i])
    /\ saverCancelled' = TRUE
    /\ pc' = "finalSave"
    /\ UNCHANGED <<env, BandwidthLimit, head, ow, rl, supportsRange, single, unlocked,
                   uri, tmpFile, journalWhole, saved,
                   outFile, journalFile, run, result, fileSize, Boost, Resume,
                   parts, progress, partDownloaded, resumeFromProgress, workers,
                   saver, cancelled, errCh, loaded, firstReq, firstWrite, writes>>

\* fetchMultiPart: the final save, then the first queued error is returned.
FetchFinalSave ==
    /\ pc = "finalSave"
    /\ Save
    /\ IF errCh # <<>>
       THEN pc' = "done" /\ result' = Head(errCh)
       ELSE pc' = "complete" /\ result' = result
    /\ UNCHANGED <<env, BandwidthLimit, head, ow, rl, supportsRange, single, unlocked,
                   uri, tmpFile, journalWhole, saved,
                   outFile, run, fileSize, Boost, Resume, parts, partDownloaded,
                   resumeFromProgress, workers, saver, saverCancelled, cancelled,
                   errCh, loaded, firstReq, firstWrite, writes>>

\* fetchMultiPart: dl.progress.Completed = true and the completion save.
FetchComplete ==
    /\ pc = "complete"
    /\ unlocked' = IF progress.exists /\ saver = "running"
                   THEN unlocked \cup {"fetchMultiPart writes completed"}
                   ELSE unlocked
    /\ progress' = saveProgress([progress EXCEPT !.completed = TRUE], partDownloaded)
    /\ journalFile' = IF progress.exists THEN progress' ELSE journalFile
    /\ pc' = "remove"
    /\ UNCHANGED <<env, BandwidthLimit, head, ow, rl, supportsRange, single,
                   uri, tmpFile, journalWhole, saved,
                   outFile, run, result, fileSize, Boost, Resume, parts,
                   partDownloaded, resumeFromProgress, workers, saver, saverCancelled,
                   cancelled, errCh, loaded, firstReq, firstWrite, writes>>

\* fetchMultiPart: removeProgress, and Fetch returns nil.
FetchRemove ==
    /\ pc = "remove"
    /\ journalFile' = NoProgress
    /\ pc' = "done"
    /\ result' = "success"
    /\ UNCHANGED <<env, BandwidthLimit, head, ow, rl, supportsRange, single, unlocked,
                   uri, tmpFile, journalWhole, saved,
                   outFile, run, fileSize, Boost, Resume, parts, progress,
                   partDownloaded, resumeFromProgress, workers, saver, saverCancelled,
                   cancelled, errCh, loaded, firstReq, firstWrite, writes>>

\* ------------------------------------------------------------- workers
\* A trackerWriter that stores the byte count of the write in the counter.
AddUint64_Store(val, delta) == delta

\* atomic.AddUint64(&dl.partDownloaded[partIndex].val, uint64(n))
AddUint64(val, delta) == U(val + delta)

\* fetchPartOnce up to the response: the part is found complete in the journal,
\* or the range request is issued and answered.
PartRequest(p) ==
    /\ p \in DOMAIN workers
    /\ workers[p].pc = "begin"
    /\ unlocked' = IF HasPart(progress, p) /\ saver = "running"
                   THEN unlocked \cup {"fetchPartOnce reads downloaded"}
                   ELSE unlocked
    /\ LET part  == parts[p]
           start == EffectiveStart(progress, p, part)
       IN  IF AlreadyDownloaded(progress, p, part)
           THEN /\ progress' = updatePartProgress(progress, p,
                                   progress.parts[p].downloaded, TRUE)
                /\ workers' = [workers EXCEPT ![p].pc = "done"]
                /\ UNCHANGED <<errCh, firstReq>>
           ELSE /\ UNCHANGED progress
                /\ IF cancelled
                   THEN AttemptFailed(p, "cancel") /\ UNCHANGED firstReq
                   ELSE /\ firstReq' = IF firstReq[p] = <<>>
                                       THEN [firstReq EXCEPT ![p] = <<start, part.endByte>>]
                                       ELSE firstReq
                        /\ \E r \in Responses(env.kinds, start, part.endByte, fileSize) :
                              IF r.status \in {206, 200}
                              THEN /\ workers' = [workers EXCEPT ![p].pc = "stream",
                                                                 ![p].status = r.status,
                                                                 ![p].offset = start,
                                                                 ![p].next = r.first,
                                                                 ![p].limit = r.limit]
                                   /\ errCh' = errCh
                              ELSE AttemptFailed(p, "fail")
    /\ UNCHANGED <<env, BandwidthLimit, head, ow, rl, supportsRange, single,
                   uri, tmpFile, journalWhole, saved,
                   outFile, journalFile, run, pc, result, fileSize, Boost, Resume,
                   parts, partDownloaded, resumeFromProgress, saver, saverCancelled,
                   cancelled, loaded, firstWrite, writes>>

\* fetchPartOnce, trackerWriter: one byte of the body is written at writeOffset
\* and added to the part's counter.
PartWrite(p) ==
    /\ p \in DOMAIN workers
    /\ workers[p].pc = "stream"
    /\ workers[p].next < workers[p].limit
    /\ ~cancelled
    /\ outFile' = WriteAt(outFile, workers[p].offset,
                        ResourceByteOf(uri, workers[p].next))
    /\ workers' = [workers EXCEPT ![p].offset = workers[p].offset + 1,
                                  ![p].next = workers[p].next + 1]
    /\ partDownloaded' = [partDownloaded EXCEPT ![p] = AddUint64(partDownloaded[p], 1)]
    /\ firstWrite' = IF firstWrite[p] = <<>>
                     THEN [firstWrite EXCEPT ![p] = <<workers[p].offset>>]
                     ELSE firstWrite
    /\ writes' = [writes EXCEPT ![p] = writes[p] \cup {workers[p].offset}]
    /\ UNCHANGED <<env, BandwidthLimit, head, ow, rl, supportsRange, single, unlocked,
                   uri, tmpFile, journalWhole, saved,
                   journalFile, run, pc, result, fileSize, Boost, Resume, parts,
                   progress, resumeFromProgress, saver, saverCancelled, cancelled,
                   errCh, loaded, firstReq>>

\* fetchPartOnce: the body ends cleanly and the part is marked completed.
PartEOF(p) ==
    /\ p \in DOMAIN workers
    /\ workers[p].pc = "stream"
    /\ workers[p].next >= workers[p].limit
    /\ ~cancelled
    /\ progress' = updatePartProgress(progress, p, partDownloaded[p], TRUE)
    /\ workers' = [workers EXCEPT ![p] = [NoWorker EXCEPT !.pc = "done",
                                            !.status = workers[p].status,
                                            !.attempt = workers[p].attempt,
                                            !.lastErr = workers[p].lastErr,
                                            !.slept = workers[p].slept]]
    /\ UNCHANGED <<env, BandwidthLimit, head, ow, rl, supportsRange, single, unlocked,
                   uri, tmpFile, journalWhole, saved,
                   outFile, journalFile, run, pc, result, fileSize, Boost, Resume,
                   parts, partDownloaded, resumeFromProgress, saver, saverCancelled,
                   cancelled, errCh, loaded, firstReq, firstWrite, writes>>

\* fetchPartOnce: the copy fails (connection lost, timeout, cancelled context).
PartFail(p) ==
    /\ p \in DOMAIN workers
    /\ workers[p].pc = "stream"
    /\ AttemptFailed(p, IF cancelled THEN "cancel" ELSE "fail")
    /\ UNCHANGED <<env, BandwidthLimit, head, ow, rl, supportsRange, single, unlocked,
                   uri, tmpFile, journalWhole, saved,
                   outFile, journalFile, run, pc, result, fileSize, Boost, Resume,
                   parts, progress, partDownloaded, resumeFromProgress, saver,
                   saverCancelled, cancelled, loaded, firstReq, firstWrite, writes>>

\* ------------------------------------------------------------- journal I/O errors
\* A Fetch that returns the error of a journal operation.
JournalErrorIsFatal_Yes == TRUE

\* Fetch and fetchMultiPart print a warning for an error of loadProgress,
\* saveProgress or removeProgress and go on.
JournalErrorIsFatal == FALSE

\* Fetch: os.ReadFile or json.Unmarshal fails in loadProgress; dl.progress
\* stays nil.
FetchPrepareLoadFails ==
    /\ Resume
    /\ journalFile.exists
    /\ IF JournalErrorIsFatal
       THEN /\ pc = "prepare"
            /\ pc' = "done"
            /\ result' = "fail"
            /\ UNCHANGED <<env, BandwidthLimit, head, ow, rl, supportsRange, unlocked,
                           uri, tmpFile, journalWhole, saved,
                           journalFile, run, fileSize, Boost, parts, partDownloaded,
                           workers, saver, saverCancelled, cancelled, errCh, firstReq,
                           firstWrite, writes, loaded, single, outFile, Resume,
                           progress, resumeFromProgress>>
       ELSE Prepare(NoProgress)

\* Fetch: the initial saveProgress fails; the journal stays in memory.
FetchInitProgressSaveFails ==
    /\ pc = "initProgress"
    /\ ~progress.exists /\ MultiPart
    /\ progress' = saveProgress(initProgress(uri, fileSize, parts), partDownloaded)
    /\ IF JournalErrorIsFatal
       THEN pc' = "done" /\ result' = "fail"
       ELSE pc' = "launch" /\ result' = result
    /\ UNCHANGED <<env, BandwidthLimit, head, ow, rl, supportsRange, single, unlocked,
                   uri, tmpFile, journalWhole, saved, journalFile, partDownloaded,
                   outFile, run, fileSize, Boost, Resume, parts,
                   resumeFromProgress, workers, saver, saverCancelled, cancelled,
                   errCh, loaded, firstReq, firstWrite, writes>>

\* The saver's saveProgress fails: the counters are in the in-memory journal,
\* the journal file is as it was.
SaverSaveFails ==
    /\ saver = "running"
    /\ progress.exists
    /\ progress' = saveProgress(progress, partDownloaded)
    /\ UNCHANGED <<env, BandwidthLimit, head, ow, rl, supportsRange, single, unlocked,
                   uri, tmpFile, journalWhole, saved, journalFile,
                   outFile, run, pc, result, fileSize, Boost, Resume, parts,
                   partDownloaded, resumeFromProgress, workers, saver, saverCancelled,
                   cancelled, errCh, loaded, firstReq, firstWrite, writes>>

\* fetchMultiPart: the final saveProgress fails.
FetchFinalSaveFails ==
    /\ pc = "finalSave"
    /\ progress.exists
    /\ progress' = saveProgress(progress, partDownloaded)
    /\ IF JournalErrorIsFatal
       THEN pc' = "done" /\ result' = "fail"
       ELSE IF errCh # <<>>
       THEN pc' = "done" /\ result' = Head(errCh)
       ELSE pc' = "complete" /\ result' = result
    /\ UNCHANGED <<env, BandwidthLimit, head, ow, rl, supportsRange, single, unlocked,
                   uri, tmpFile, journalWhole, saved, journalFile,
                   outFile, run, fileSize, Boost, Resume, parts, partDownloaded,
                   resumeFromProgress, workers, saver, saverCancelled, cancelled,
                   errCh, loaded, firstReq, firstWrite, writes>>

\* fetchMultiPart: dl.progress.Completed = true, and the completion save fails.
FetchCompleteSaveFails ==
    /\ pc = "complete"
    /\ progress.exists
    /\ unlocked' = IF saver = "running"
                   THEN unlocked \cup {"fetchMultiPart writes completed"}
                   ELSE unlocked
    /\ progress' = saveProgress([progress EXCEPT !.completed = TRUE], partDownloaded)
    /\ IF JournalErrorIsFatal
       THEN pc' = "done" /\ result' = "fail"
       ELSE pc' = "remove" /\ result' = result
    /\ UNCHANGED <<env, BandwidthLimit, head, ow, rl, supportsRange, single,
                   uri, tmpFile, journalWhole, saved, journalFile,
                   outFile, run, fileSize, Boost, Resume, parts,
                   partDownloaded, resumeFromProgress, workers, saver, saverCancelled,
                   cancelled, errCh, loaded, firstReq, firstWrite, writes>>

\* fetchMultiPart: removeProgress fails; the journal file stays and Fetch
\* returns nil.
FetchRemoveFails ==
    /\ pc = "remove"
    /\ journalFile.exists
    /\ pc' = "done"
    /\ result' = IF JournalErrorIsFatal THEN "fail" ELSE "success"
    /\ UNCHANGED <<env, BandwidthLimit, head, ow, rl, supportsRange, single, unlocked,
                   uri, tmpFile, journalWhole, saved, journalFile,
                   outFile, run, fileSize, Boost, Resume, parts, progress,
                   partDownloaded, resumeFromProgress, workers, saver, saverCancelled,
                   cancelled, errCh, loaded, firstReq, firstWrite, writes>>

\* The output file is deleted between two runs; the journal file stays.
OutputRemoved ==
    /\ pc \in {"idle", "done"}
    /\ run < env.runs
    /\ outFile.exists
    /\ outFile' = NoFile
    /\ UNCHANGED <<env, BandwidthLimit, head, ow, rl, supportsRange, single, unlocked,
                   uri, tmpFile, journalWhole, saved,
                   journalFile, run, pc, result, fileSize, Boost, Resume, parts,
                   progress, partDownloaded, resumeFromProgress, workers, saver,
                   saverCancelled, cancelled, errCh, loaded, firstReq, firstWrite,
                   writes>>

\* ------------------------------------------------------------- single stream
\* What may come back for fetchSingleStream's GET, sent with "Range: bytes=start-"
\* (ranged) or without a Range header: a status and the resource bytes
\* first..limit-1 as the body.  "206" is the answer of a server that honours
\* the request (200 and the whole resource to a plain GET, 206 and the rest to a
\* range inside the resource, 416 to a range that starts at its end or beyond),
\* "200" of one that ignores the Range header, "short" of one that ends the
\* body early; "status" is any other status and "error" a transport error.
SingleResponses(kinds, ranged, start, size) ==
       {IF ~ranged THEN [status |-> 200, first |-> 0, limit |-> size]
        ELSE IF start < size THEN [status |-> 206, first |-> start, limit |-> size]
        ELSE [status |-> 416, first |-> 0, limit |-> 0] : k \in kinds \cap {"206"}}
  \cup {[status |-> 200, first |-> 0, limit |-> size] : k \in kinds \cap {"200"}}
  \cup {[status |-> IF ranged THEN 206 ELSE 200,
         first |-> IF ranged THEN start ELSE 0, limit |-> l] :
            l \in IF "short" \in kinds
                  THEN (IF ranged THEN start ELSE 0)..(size - 1) ELSE {}}
  \cup {[status |-> st, first |-> 0, limit |-> IF st = 206 THEN size ELSE 0] :
            st \in IF "status" \in kinds THEN {503, 206} ELSE {}}
  \cup {[status |-> 0, first |-> 0, limit |-> 0] : k \in kinds \cap {"error"}}

\* A fetchSingleStream that expects 200 for every request.
expectedStatus_Always200(startOffset) == 200

\* fetchSingleStream: the status it accepts for its request.
expectedStatus(startOffset) == IF startOffset > 0 THEN 206 ELSE 200

\* fetchSingleStream up to the response: the GET is sent, with a Range header if
\* the run resumes an existing file, and the answer's status is checked.
SingleRequest ==
    /\ pc = "launch"
    /\ ~MultiPart
    /\ LET ranged      == Resume /\ single.existing > 0
           startOffset == IF ranged THEN single.existing ELSE 0
           sent        == [single EXCEPT
                              !.range = IF ranged THEN <<single.existing>> ELSE <<>>]
       IN  IF cancelled
           THEN /\ single' = [sent EXCEPT !.pc = "failed"]
                /\ pc' = "done"
                /\ result' = "cancel"
           ELSE \E r \in SingleResponses(env.kinds, ranged, startOffset, fileSize) :
                   IF r.status = expectedStatus(startOffset)
                   THEN /\ single' = [sent EXCEPT !.pc = "stream",
                                                  !.status = r.status,
                                                  !.offset = startOffset,
                                                  !.next = r.first,
                                                  !.limit = r.limit]
                        /\ pc' = "single"
                        /\ result' = result
                   ELSE /\ single' = [sent EXCEPT !.pc = "failed",
                                                  !.status = r.status]
                        /\ pc' = "done"
                        /\ result' = "fail"
    /\ UNCHANGED <<env, BandwidthLimit, head, ow, rl, supportsRange, unlocked,
                   uri, tmpFile, journalWhole, saved,
                   outFile, journalFile, run, fileSize, Boost, Resume, parts,
                   progress, partDownloaded, resumeFromProgress, workers, saver,
                   saverCancelled, cancelled, errCh, loaded, firstReq, firstWrite,
                   writes>>

\* fetchSingleStream, io.Copy through the offsetWriter: one byte of the body is
\* written at the writer's offset.
SingleWrite ==
    /\ pc = "single"
    /\ single.next < single.limit
    /\ ~cancelled
    /\ outFile' = WriteAt(outFile, single.offset, ResourceByteOf(uri, single.next))
    /\ single' = [single EXCEPT !.offset = single.offset + 1,
                                !.next = single.next + 1,
                                !.wrote = Append(single.wrote, single.offset)]
    /\ UNCHANGED <<env, BandwidthLimit, head, ow, rl, supportsRange, unlocked,
                   uri, tmpFile, journalWhole, saved,
                   journalFile, run, pc, result, fileSize, Boost, Resume, parts,
                   progress, partDownloaded, resumeFromProgress, workers, saver,
                   saverCancelled, cancelled, errCh, loaded, firstReq, firstWrite,
                   writes>>

\* fetchSingleStream: the body ends; the journal file is removed if the run
\* holds a journal, and Fetch returns nil.
SingleEOF ==
    /\ pc = "single"
    /\ single.next >= single.limit
    /\ ~cancelled
    /\ journalFile' = IF progress.exists THEN NoProgress ELSE journalFile
    /\ single' = [single EXCEPT !.pc = "done"]
    /\ pc' = "done"
    /\ result' = "success"
    /\ UNCHANGED <<env, BandwidthLimit, head, ow, rl, supportsRange, unlocked,
                   uri, tmpFile, journalWhole, saved,
                   outFile, run, fileSize, Boost, Resume, parts,
                   progress, partDownloaded, resumeFromProgress, workers, saver,
                   saverCancelled, cancelled, errCh, loaded, firstReq, firstWrite,
                   writes>>

\* fetchSingleStream: the copy fails (connection lost, timeout, cancelled
\* context) and Fetch returns the error.
SingleFail ==
    /\ pc = "single"
    /\ single' = [single EXCEPT !.pc = "failed"]
    /\ pc' = "done"
    /\ result' = IF cancelled THEN "cancel" ELSE "fail"
    /\ UNCHANGED <<env, BandwidthLimit, head, ow, rl, supportsRange, unlocked,
                   uri, tmpFile, journalWhole, saved,
                   outFile, journalFile, run, fileSize, Boost, Resume, parts,
                   progress, partDownloaded, resumeFromProgress, workers, saver,
                   saverCancelled, cancelled, errCh, loaded, firstReq, firstWrite,
                   writes>>

\* ------------------------------------------------------------- periodic saver
\* The saver's select takes the ticker case: saveProgress.  select chooses among
\* the ready cases at random, so the ticker case can be taken with ctx done too.
SaverSave ==
    /\ saver = "running"
    /\ Save
    /\ UNCHANGED <<env, BandwidthLimit, head, ow, rl, supportsRange, single, unlocked,
                   uri, tmpFile, journalWhole, saved,
                   outFile, run, pc, result, fileSize, Boost, Resume, parts,
                   partDownloaded, resumeFromProgress, workers, saver, saverCancelled,
                   cancelled, errCh, loaded, firstReq, firstWrite, writes>>

\* The saver's select takes <-ctx.Done(): the goroutine returns.
SaverStop ==
    /\ saver = "running"
    /\ saverCancelled \/ cancelled
    /\ saver' = "stopped"
    /\ UNCHANGED <<env, BandwidthLimit, head, ow, rl, supportsRange, single, unlocked,
                   uri, tmpFile, journalWhole, saved,
                   outFile, journalFile, run, pc, result, fileSize, Boost, Resume,
                   parts, progress, partDownloaded, resumeFromProgress, workers,
                   saverCancelled, cancelled, errCh, loaded, firstReq, firstWrite,
                   writes>>

\* ------------------------------------------------------------- interruptions
Running == pc \notin {"idle", "done"}

\* The caller cancels dl.Context.
Cancel ==
    /\ Running
    /\ ~cancelled
    /\ cancelled' = TRUE
    /\ UNCHANGED <<env, BandwidthLimit, head, ow, rl, supportsRange, single, unlocked,
                   uri, tmpFile, journalWhole, saved,
                   outFile, journalFile, run, pc, result, fileSize, Boost, Resume,
                   parts, progress, partDownloaded, resumeFromProgress, workers,
                   saver, saverCancelled, errCh, loaded, firstReq, firstWrite, writes>>

\* The process dies: the disk stays, the memory is gone.
Crash ==
    /\ Running
    /\ run < env.runs
    /\ pc' = "idle"
    /\ result' = "none"
    /\ Boost' = 0
    /\ Resume' = FALSE
    /\ parts' = NoParts
    /\ progress' = NoProgress
    /\ partDownloaded' = NoParts
    /\ resumeFromProgress' = FALSE
    /\ workers' = NoParts
    /\ saver' = "off"
    /\ saverCancelled' = FALSE
    /\ cancelled' = FALSE
    /\ errCh' = <<>>
    /\ loaded' = NoProgress
    /\ firstReq' = NoHistory
    /\ firstWrite' = NoHistory
    /\ writes' = NoHistory
    /\ supportsRange' = FALSE
    /\ single' = NoSingle
    /\ unlocked' = {}
    /\ UNCHANGED <<env, BandwidthLimit, head, ow, rl, uri, tmpFile, journalWhole, saved,
                   outFile, journalFile, run, fileSize>>

\* ------------------------------------------------------------- journal steps
\* saveProgress, loadProgress and the process around them, step by step.  The
\* disk is the journal file, the temp file beside it and the output file.
JournalFrame ==
    UNCHANGED <<env, BandwidthLimit, head, ow, rl, supportsRange, single, unlocked, outFile, resumeFromProgress, workers, saver, saverCancelled,
                cancelled, errCh, firstReq, firstWrite, writes>>

\* A saveProgress that writes the document straight to the journal path.
tempPath_JournalPath == "journal"

\* The paths of the journal file and of the temp file saveProgress writes.
progressFilePath == "journal"

tempPath == "journal.tmp"

\* The journal as read from a file holding doc: a document cut short holds
\* nothing that can be read.
FileAsJournal(doc) ==
    IF Parseable(doc) THEN Unmarshal(doc) ELSE [NoProgress EXCEPT !.exists = TRUE]

\* A process starts: a Downloader with URI u, file size size and two parts.
JournalOpen(u, size) ==
    /\ pc = "idle"
    /\ run < env.runs
    /\ run' = run + 1
    /\ uri' = u
    /\ fileSize' = size
    /\ Boost' = 2
    /\ Resume' = TRUE
    /\ parts' = PlanParts(size, 2)
    /\ partDownloaded' = [i \in 0..1 |-> 0]
    /\ progress' = NoProgress
    /\ loaded' = NoProgress
    /\ result' = "none"
    /\ pc' = "load"
    /\ UNCHANGED <<journalFile, journalWhole, tmpFile, saved>>
    /\ JournalFrame

\* loadProgress: no file is no journal and no error, a document that does not
\* parse is an error, a document of another download is no journal.
JournalLoad ==
    /\ pc = "load"
    /\ IF journalFile.exists /\ ~journalWhole
       THEN progress' = progress /\ result' = "loadError"
       ELSE progress' = loadProgress(journalFile, uri, fileSize) /\ result' = "none"
    /\ loaded' = progress'
    /\ pc' = "loaded"
    /\ UNCHANGED <<uri, fileSize, run, Boost, Resume, parts, partDownloaded,
                   journalFile, journalWhole, tmpFile, saved>>
    /\ JournalFrame

\* Fetch after the load: a Downloader without a journal initialises one, one
\* with a journal restores its counters from it.
JournalStart ==
    /\ pc = "loaded"
    /\ IF progress.exists
       THEN /\ progress' = progress
            /\ partDownloaded' =
                   [i \in DOMAIN parts |->
                       IF HasPart(progress, i) THEN progress.parts[i].downloaded
                       ELSE partDownloaded[i]]
       ELSE /\ progress' = initProgress(uri, fileSize, parts)
            /\ partDownloaded' = partDownloaded
    /\ pc' = "run"
    /\ UNCHANGED <<uri, fileSize, run, result, Boost, Resume, parts, loaded,
                   journalFile, journalWhole, tmpFile, saved>>
    /\ JournalFrame

\* A worker's trackerWriter adds a byte to its part's counter, between saves or
\* after a save has read the counters (an addition while the document is being
\* written is no different from one just after).
CounterAdd(p) ==
    /\ pc \in {"run", "rename"}
    /\ p \in DOMAIN partDownloaded
    /\ partDownloaded[p] < PartSize(parts[p])
    /\ partDownloaded' = [partDownloaded EXCEPT ![p] = AddUint64(partDownloaded[p], 1)]
    /\ UNCHANGED <<uri, fileSize, run, pc, result, Boost, Resume, parts, progress,
                   loaded, journalFile, journalWhole, tmpFile, saved>>
    /\ JournalFrame

\* A worker whose body has ended after the whole part marks the part completed
\* (updatePartProgress); it waits for the mutex while a save is under way.
MarkCompleted(p) ==
    /\ pc = "run"
    /\ p \in DOMAIN partDownloaded
    /\ partDownloaded[p] = PartSize(parts[p])
    /\ progress' = updatePartProgress(progress, p, partDownloaded[p], TRUE)
    /\ progress' # progress
    /\ UNCHANGED <<uri, fileSize, run, pc, result, Boost, Resume, parts,
                   partDownloaded, loaded, journalFile, journalWhole, tmpFile, saved>>
    /\ JournalFrame

\* saveProgress: the counters are read into the journal and the document is
\* marshalled.
SaveSnapshot ==
    /\ pc = "run"
    /\ progress.exists
    /\ progress' = saveProgress(progress, partDownloaded)
    /\ saved' = [saved EXCEPT
                    !.takenCounters = partDownloaded,
                    !.takenFlags = [i \in DOMAIN progress.parts |->
                                       progress.parts[i].completed],
                    !.written = 0]
    /\ pc' = "write"
    /\ UNCHANGED <<uri, fileSize, run, result, Boost, Resume, parts, partDownloaded,
                   loaded, journalFile, journalWhole, tmpFile>>
    /\ JournalFrame

\* saveProgress, os.WriteFile(tempPath): the file at that path is created or
\* truncated and the document is written to it piece by piece.
SaveWrite ==
    /\ pc = "write"
    /\ LET full == Marshal(progress)
           doc  == SubSeq(full, 1, saved.written + 1)
       IN  /\ IF tempPath # progressFilePath
              THEN /\ tmpFile' = [exists |-> TRUE, doc |-> doc]
                   /\ UNCHANGED <<journalFile, journalWhole>>
              ELSE /\ journalFile' = FileAsJournal(doc)
                   /\ journalWhole' = Parseable(doc)
                   /\ tmpFile' = tmpFile
           /\ saved' = [saved EXCEPT !.written = saved.written + 1]
           /\ pc' = IF Len(doc) = Len(full) THEN "rename" ELSE "write"
    /\ UNCHANGED <<uri, fileSize, run, result, Boost, Resume, parts, progress,
                   partDownloaded, loaded>>
    /\ JournalFrame

\* saveProgress, os.Rename(tempPath, progressFilePath): the journal path names
\* the written file from now on; saveProgress returns nil.
SaveRename ==
    /\ pc = "rename"
    /\ IF tempPath # progressFilePath
       THEN /\ journalFile' = FileAsJournal(tmpFile.doc)
            /\ journalWhole' = Parseable(tmpFile.doc)
            /\ tmpFile' = NoTmp
       ELSE UNCHANGED <<journalFile, journalWhole, tmpFile>>
    /\ saved' = [saved EXCEPT !.counters = saved.takenCounters,
                              !.flags = saved.takenFlags,
                              !.written = 0]
    /\ pc' = "run"
    /\ UNCHANGED <<uri, fileSize, run, result, Boost, Resume, parts, progress,
                   partDownloaded, loaded>>
    /\ JournalFrame

\* The process dies at any step: the disk stays, the memory is gone.
JournalCrash ==
    /\ pc # "idle"
    /\ run < env.runs
    /\ pc' = "idle"
    /\ result' = "none"
    /\ Boost' = 0
    /\ Resume' = FALSE
    /\ parts' = NoParts
    /\ progress' = NoProgress
    /\ partDownloaded' = NoParts
    /\ loaded' = NoProgress
    /\ saved' = [saved EXCEPT !.takenCounters = NoParts, !.takenFlags = NoParts,
                              !.written = 0]
    /\ UNCHANGED <<uri, fileSize, run, journalFile, journalWhole, tmpFile>>
    /\ JournalFrame

NextJournal ==
    \/ \E u \in DOMAIN env.sizes, v \in DOMAIN env.sizes : JournalOpen(u, env.sizes[v])
    \/ JournalLoad
    \/ JournalStart
    \/ \E p \in DOMAIN partDownloaded : CounterAdd(p)
    \/ \E p \in DOMAIN partDownloaded : MarkCompleted(p)
    \/ SaveSnapshot
    \/ SaveWrite
    \/ SaveRename
    \/ JournalCrash

Next ==
    \/ \E b \in env.boosts, u \in DOMAIN env.sizes : StartRun(b, u)
    \/ FetchPlan
    \/ FetchPrepare
    \/ FetchTruncate
    \/ FetchInitProgress
    \/ FetchLaunch
    \/ \E p \in DOMAIN workers : PartRequest(p)
    \/ \E p \in DOMAIN workers : PartWrite(p)
    \/ \E p \in DOMAIN workers : PartEOF(p)
    \/ \E p \in DOMAIN workers : PartFail(p)
    \/ FetchWait
    \/ FetchFinalSave
    \/ FetchComplete
    \/ FetchRemove
    \/ SaverSave
    \/ SaverStop
    \/ Cancel
    \/ Crash

\* ------------------------------------------------------------- metadata probe
\* The header values the server may send: strings are sequences of characters.
Digit == "0" :> 0 @@ "1" :> 1 @@ "2" :> 2 @@ "3" :> 3 @@ "4" :> 4 @@ "5" :> 5
         @@ "6" :> 6 @@ "7" :> 7 @@ "8" :> 8 @@ "9" :> 9
LengthChars == {"0", "1", "9", "-"}
ContentLengths ==
    {<<>>} \cup {<<a>> : a \in LengthChars}
           \cup {<<a, b>> : a \in LengthChars, b \in LengthChars}
AcceptRangesValues ==
    {<<>>, <<"b", "y", "t", "e", "s">>, <<"B", "Y", "T", "E", "S">>,
     <<"B", "y", "t", "e", "s">>, <<"b", "y", "t", "e">>, <<"n", "o", "n", "e">>}
\* The HEAD request's outcomes: a transport error (status 0) or a response.
HeadAnswers ==
    [status : {0, 200, 404}, contentLength : ContentLengths,
     acceptRanges : AcceptRangesValues]

RECURSIVE ParseUint(_)
\* strconv.ParseUint(s, 10, 64): the value, or -1 for a syntax or range error.
ParseUint(s) ==
    IF s = <<>> THEN -1
    ELSE IF s[Len(s)] \notin DOMAIN Digit THEN -1
    ELSE IF Len(s) = 1 THEN Digit[s[1]]
    ELSE LET high == ParseUint(SubSeq(s, 1, Len(s) - 1))
         IN  IF high < 0 THEN -1
             ELSE IF high * 10 + Digit[s[Len(s)]] >= UintMod THEN -1
             ELSE high * 10 + Digit[s[Len(s)]]

\* A probe that compares the Accept-Ranges value as it came.
ToLower_Identity(s) == s

\* strings.ToLower
ToLower(s) ==
    LET lower == "B" :> "b" @@ "Y" :> "y" @@ "T" :> "t" @@ "E" :> "e"
                 @@ "S" :> "s" @@ "N" :> "n" @@ "O" :> "o"
    IN  [i \in 1..Len(s) |-> IF s[i] \in DOMAIN lower THEN lower[s[i]] ELSE s[i]]

\* FetchMetadata on the answer h: the error it returns ("nil" for none), and
\* dl.fileSize and dl.supportsRange as it leaves them.
Metadata(h) ==
    IF h.status = 0
    THEN [err |-> "HEAD request failed", fileSize |-> 0, supportsRange |-> FALSE]
    ELSE IF h.status # 200
    THEN [err |-> "server returned status", fileSize |-> 0, supportsRange |-> FALSE]
    ELSE IF h.contentLength = <<>>
    THEN [err |-> "no Content-Length", fileSize |-> 0, supportsRange |-> FALSE]
    ELSE IF ParseUint(h.contentLength) < 0
    THEN [err |-> "invalid Content-Length", fileSize |-> 0, supportsRange |-> FALSE]
    ELSE [err |-> "nil", fileSize |-> ParseUint(h.contentLength),
          supportsRange |-> ToLower(h.acceptRanges) = <<"b", "y", "t", "e", "s">>]

\* Fetch up to the probe: a Downloader with Boost b and Resume on calls Fetch,
\* the server answers the HEAD request with h; a failed probe ends Fetch.
FetchMetadata(b, h) ==
    /\ pc \in {"idle", "done"}
    /\ run < env.runs
    /\ run' = run + 1
    /\ head' = h
    /\ fileSize' = Metadata(h).fileSize
    /\ supportsRange' = Metadata(h).supportsRange
    /\ IF Metadata(h).err = "nil"
       THEN pc' = "plan" /\ result' = "none"
       ELSE pc' = "done" /\ result' = "probeError"
    /\ Boost' = b
    /\ Resume' = TRUE
    /\ parts' = NoParts
    /\ progress' = NoProgress
    /\ partDownloaded' = NoParts
    /\ resumeFromProgress' = FALSE
    /\ workers' = NoParts
    /\ saver' = "off"
    /\ saverCancelled' = FALSE
    /\ cancelled' = FALSE
    /\ errCh' = <<>>
    /\ loaded' = NoProgress
    /\ firstReq' = NoHistory
    /\ firstWrite' = NoHistory
    /\ writes' = NoHistory
    /\ single' = NoSingle
    /\ unlocked' = {}
    /\ UNCHANGED <<env, BandwidthLimit, ow, rl, uri, tmpFile, journalWhole, saved, outFile,
                   journalFile>>

\* Fetch from the probe to the launch of the transfer, and the process's end.
NextProbe ==
    \/ \E b \in env.boosts, h \in HeadAnswers : FetchMetadata(b, h)
    \/ FetchPlan
    \/ FetchPrepare
    \/ FetchTruncate
    \/ FetchInitProgress
    \/ Crash

\* ------------------------------------------------------------- writers
WriterFrame ==
    UNCHANGED <<env, BandwidthLimit, head, supportsRange, single, unlocked, uri, tmpFile,
                journalWhole, saved, outFile, journalFile, run, pc, result,
                fileSize, Boost, Resume, parts, progress, partDownloaded,
                resumeFromProgress, workers, saver, saverCancelled, cancelled,
                errCh, loaded, firstReq, firstWrite, writes>>

\* A buffer p of the given length: its bytes are told apart by their position.
Buffer(len) == [i \in 1..len |-> i]

\* What a sink or a downstream writer may report for a write of len bytes: all
\* of them, or fewer and an error (io.Writer, io.WriterAt).
WriteResults(len) ==
    {[n |-> n, err |-> "downstream"] : n \in 0..len} \cup {[n |-> len, err |-> "nil"]}

\* An offsetWriter that advances by the length of the buffer.
offsetWriter_Write_ByLength(w, len, n) ==
    [w EXCEPT !.calls = Append(@, [at |-> w.offset, len |-> len, n |-> n]),
              !.offset = w.offset + len]

\* offsetWriter.Write: WriteAt(p, ow.offset) reports n; ow.offset += n.
offsetWriter_Write(w, len, n) ==
    [w EXCEPT !.calls = Append(@, [at |-> w.offset, len |-> len, n |-> n]),
              !.offset = w.offset + n]

\* &offsetWriter{w: sink, offset: o}
NewOffsetWriter(o) ==
    /\ ~ow.made
    /\ ow' = [NoOffsetWriter EXCEPT !.made = TRUE, !.offset = o, !.start = o]
    /\ rl' = rl
    /\ WriterFrame

\* ow.Write(p) with len(p) = len, the sink reporting r.
OffsetWrite(len, r) ==
    /\ ow.made
    /\ Len(ow.calls) < MaxCalls
    /\ ow' = offsetWriter_Write(ow, len, r.n)
    /\ rl' = rl
    /\ WriterFrame

NextOffsetWriter ==
    \/ \E o \in 0..MaxOffset : NewOffsetWriter(o)
    \/ \E len \in 0..MaxWrite : \E r \in WriteResults(len) : OffsetWrite(len, r)

\* rateLimitedWriter.Write: the size of the next chunk.
chunkSize(len, written) ==
    IF MaxChunk > len - written THEN len - written ELSE MaxChunk

\* limiter.WaitN(ctx, n): nil once n tokens are granted; an error if n exceeds
\* the limiter's burst or if the context is cancelled.
WaitN(n, burst, ctxCancelled) ==
       {"burst" : x \in {1} \cap (IF n > burst THEN {1} ELSE {})}
  \cup {"cancelled" : x \in {1} \cap (IF ctxCancelled THEN {1} ELSE {})}
  \cup {"nil" : x \in {1} \cap (IF n <= burst /\ ~ctxCancelled THEN {1} ELSE {})}

\* A rateLimitedWriter that reports nothing written when a wait fails.
WaitFailed_Zero(w, err) ==
    [w EXCEPT !.pc = "returned", !.ret = 0, !.err = err]

\* rateLimitedWriter.Write: return written, err after a failed wait.
WaitFailed(w, err) ==
    [w EXCEPT !.pc = "returned", !.ret = w.written, !.err = err]

\* &rateLimitedWriter{w: downstream, limiter: limiter, ctx: ctx}; the limiter
\* is nil (burst 0) or rate.NewLimiter(limit, burst).
NewRateLimitedWriter(burst) ==
    /\ rl.pc = "none"
    /\ rl' = [NoRateLimited EXCEPT !.pc = "idle", !.burst = burst]
    /\ ow' = ow
    /\ WriterFrame

\* The writer's context is cancelled.
CancelContext ==
    /\ rl.pc \in {"idle", "wait", "forward"}
    /\ ~rl.cancelled
    /\ rl' = [rl EXCEPT !.cancelled = TRUE]
    /\ ow' = ow
    /\ WriterFrame

\* rl.Write(p) is called: with a nil limiter p goes downstream in one write and
\* its result is returned; otherwise the loop starts.
RateLimitedWrite(len) ==
    /\ rl.pc = "idle"
    /\ IF rl.burst = 0
       THEN \E r \in WriteResults(len) :
               rl' = [rl EXCEPT !.pc = "returned", !.len = len,
                                !.forwarded = <<[data |-> Buffer(len), n |-> r.n]>>,
                                !.ret = r.n, !.err = r.err]
       ELSE rl' = [rl EXCEPT !.pc = "wait", !.len = len, !.written = 0]
    /\ ow' = ow
    /\ WriterFrame

\* The loop's test and the wait for the next chunk.
RateLimitedWait ==
    /\ rl.pc = "wait"
    /\ IF rl.written >= rl.len
       THEN rl' = [rl EXCEPT !.pc = "returned", !.ret = rl.written, !.err = "nil"]
       ELSE \E e \in WaitN(chunkSize(rl.len, rl.written), rl.burst, rl.cancelled) :
               IF e = "nil"
               THEN rl' = [rl EXCEPT !.pc = "forward",
                              !.admitted = Append(@, chunkSize(rl.len, rl.written))]
               ELSE rl' = WaitFailed(rl, e)
    /\ ow' = ow
    /\ WriterFrame

\* The chunk goes downstream; written grows by what downstream reported, and
\* a downstream error ends the Write.
RateLimitedForward ==
    /\ rl.pc = "forward"
    /\ LET c     == chunkSize(rl.len, rl.written)
           chunk == SubSeq(Buffer(rl.len), rl.written + 1, rl.written + c)
       IN  \E r \in WriteResults(c) :
              rl' = [rl EXCEPT !.forwarded = Append(@, [data |-> chunk, n |-> r.n]),
                               !.written = rl.written + r.n,
                               !.pc = IF r.err = "nil" THEN "wait" ELSE "returned",
                               !.ret = IF r.err = "nil" THEN rl.ret ELSE rl.written + r.n,
                               !.err = r.err]
    /\ ow' = ow
    /\ WriterFrame

NextRateLimited ==
    \/ \E burst \in 0..MaxBurst : NewRateLimitedWriter(burst)
    \/ CancelContext
    \/ \E len \in 0..MaxWrite : RateLimitedWrite(len)
    \/ RateLimitedWait
    \/ RateLimitedForward

\* ------------------------------------------------- the limiters of a download
\* The floor of a part's limit (1024 bytes per second in the source), in the
\* model's bytes: as in the source it is below the rateLimitedWriter's chunk.
MinPartLimit == 1

\* fetchPartOnce: perPartLimit := dl.BandwidthLimit / int64(dl.Boost), raised to
\* the floor when it is below it.
perPartLimit(limit, boost) ==
    IF limit \div boost < MinPartLimit THEN MinPartLimit ELSE limit \div boost

\* rate.NewLimiter(rate.Limit(r), b) around the downstream writer.
NewLimiter(r, b) == [NoRateLimited EXCEPT !.pc = "idle", !.rate = r, !.burst = b]

\* fetchPartOnce: a part's writer is rate limited when dl.BandwidthLimit > 0,
\* with the per-part limit as the limiter's rate and burst.
PartLimiter ==
    /\ rl.pc = "none"
    /\ MultiPart
    /\ IF BandwidthLimit > 0
       THEN rl' = NewLimiter(perPartLimit(BandwidthLimit, Boost),
                             perPartLimit(BandwidthLimit, Boost))
       ELSE rl' = [NoRateLimited EXCEPT !.pc = "idle"]
    /\ ow' = ow
    /\ WriterFrame

\* fetchSingleStream: the stream's writer is rate limited when
\* dl.BandwidthLimit > 0, with the whole limit as the limiter's rate and burst.
SingleLimiter ==
    /\ rl.pc = "none"
    /\ ~MultiPart
    /\ IF BandwidthLimit > 0
       THEN rl' = NewLimiter(BandwidthLimit, BandwidthLimit)
       ELSE rl' = [NoRateLimited EXCEPT !.pc = "idle"]
    /\ ow' = ow
    /\ WriterFrame

\* The writers a download builds from its bandwidth limit, and the Writes that
\* io.Copy and io.CopyBuffer make to them.
NextLimited ==
    \/ PartLimiter
    \/ SingleLimiter
    \/ CancelContext
    \/ \E len \in 0..MaxWrite : RateLimitedWrite(len)
    \/ RateLimitedWait
    \/ RateLimitedForward


\* The steps of runs that may also fetch over a single stream.
NextSingle ==
    \/ \E b \in env.boosts, u \in DOMAIN env.sizes : StartRun(b, u)
    \/ FetchPlan
    \/ FetchPrepare
    \/ FetchTruncate
    \/ FetchInitProgress
    \/ FetchLaunch
    \/ SingleRequest
    \/ SingleWrite
    \/ SingleEOF
    \/ SingleFail
    \/ \E p \in DOMAIN workers : PartRequest(p)
    \/ \E p \in DOMAIN workers : PartWrite(p)
    \/ \E p \in DOMAIN workers : PartEOF(p)
    \/ \E p \in DOMAIN workers : PartFail(p)
    \/ FetchWait
    \/ FetchFinalSave
    \/ FetchComplete
    \/ FetchRemove
    \/ SaverSave
    \/ SaverStop
    \/ Cancel
    \/ Crash

\* The engine's steps and the loss of the output file between runs.
NextFileLost ==
    \/ \E b \in env.boosts, u \in DOMAIN env.sizes : StartRun(b, u)
    \/ OutputRemoved
    \/ FetchPlan
    \/ FetchPrepare
    \/ FetchTruncate
    \/ FetchInitProgress
    \/ FetchLaunch
    \/ \E p \in DOMAIN workers : PartRequest(p)
    \/ \E p \in DOMAIN workers : PartWrite(p)
    \/ \E p \in DOMAIN workers : PartEOF(p)
    \/ \E p \in DOMAIN workers : PartFail(p)
    \/ FetchWait
    \/ FetchFinalSave
    \/ FetchComplete
    \/ FetchRemove
    \/ SaverSave
    \/ SaverStop
    \/ Cancel
    \/ Crash

\* The engine's steps and the journal operations that fail.
NextFaulty ==
    \/ \E b \in env.boosts, u \in DOMAIN env.sizes : StartRun(b, u)
    \/ FetchPlan
    \/ FetchPrepare
    \/ FetchPrepareLoadFails
    \/ FetchTruncate
    \/ FetchInitProgress
    \/ FetchInitProgressSaveFails
    \/ FetchLaunch
    \/ \E p \in DOMAIN workers : PartRequest(p)
    \/ \E p \in DOMAIN workers : PartWrite(p)
    \/ \E p \in DOMAIN workers : PartEOF(p)
    \/ \E p \in DOMAIN workers : PartFail(p)
    \/ FetchWait
    \/ FetchFinalSave
    \/ FetchFinalSaveFails
    \/ FetchComplete
    \/ FetchCompleteSaveFails
    \/ FetchRemove
    \/ FetchRemoveFails
    \/ SaverSave
    \/ SaverSaveFails
    \/ SaverStop
    \/ Cancel
    \/ Crash

\* ---------------------------------------------------------------- scheduling
\* The steps of a process that is not killed.
NextLive ==
    \/ \E b \in env.boosts, u \in DOMAIN env.sizes : StartRun(b, u)
    \/ FetchPlan
    \/ FetchPrepare
    \/ FetchTruncate
    \/ FetchInitProgress
    \/ FetchLaunch
    \/ \E p \in DOMAIN workers : PartRequest(p)
    \/ \E p \in DOMAIN workers : PartWrite(p)
    \/ \E p \in DOMAIN workers : PartEOF(p)
    \/ \E p \in DOMAIN workers : PartFail(p)
    \/ FetchWait
    \/ FetchFinalSave
    \/ FetchComplete
    \/ FetchRemove
    \/ SaverSave
    \/ SaverStop
    \/ Cancel

\* The goroutine that called Fetch runs on: none of its steps waits for anything
\* but its workers (wg.Wait).
CoordinatorStep ==
    \/ FetchPlan
    \/ FetchPrepare
    \/ FetchTruncate
    \/ FetchInitProgress
    \/ FetchLaunch
    \/ FetchWait
    \/ FetchFinalSave
    \/ FetchComplete
    \/ FetchRemove

\* The goroutine of part p runs on, and each of its HTTP requests eventually
\* completes or fails: the request is answered, and the response's stream
\* delivers bytes, ends or breaks.
WorkerStep(p) == PartRequest(p) \/ PartWrite(p) \/ PartEOF(p) \/ PartFail(p)

\* Go schedules every runnable goroutine; a select with a ready <-ctx.Done()
\* eventually takes it.
Fairness ==
    /\ WF_vars(CoordinatorStep)
    /\ \A p \in 0..(PlanMaxBoost - 1) : WF_vars(WorkerStep(p))
    /\ WF_vars(SaverStop)

Spec == Init /\ [][Next]_vars

SpecLive == InitLive /\ [][NextLive]_vars /\ Fairness

SpecFaulty == InitFileLost /\ [][NextFaulty]_vars

SpecFileLost == InitFileLost /\ [][NextFileLost]_vars

SpecSingle == InitSingle /\ [][NextSingle]_vars

SpecRerun == InitRerun /\ [][Next]_vars

SpecProbe == InitProbe /\ [][NextProbe]_vars

SpecOffsetWriter == InitWriters /\ [][NextOffsetWriter]_vars

SpecRateLimited == InitWriters /\ [][NextRateLimited]_vars

SpecLimited == InitLimited /\ [][NextLimited]_vars

SpecAnyServer == InitAnyServer /\ [][Next]_vars

SpecReplan == InitReplan /\ [][Next]_vars

SpecOtherURI == InitOtherURI /\ [][Next]_vars

SpecJournal == InitJournal /\ [][NextJournal]_vars

SpecPlan == InitPlan /\ [][CalculateParts]_vars

\* ------------------------------------------------------------- properties
\* The parts as a plan should be: each within the file, contiguous from 0,
\* pairwise disjoint, together all of [0, size), the last ending at size - 1.
Range(part) == part.startByte..part.endByte

IsPartition(ps, size, boost) ==
    /\ DOMAIN ps = 0..(boost - 1)
    /\ \A i \in DOMAIN ps : ps[i].startByte <= ps[i].endByte /\ ps[i].endByte < size
    /\ ps[0].startByte = 0
    /\ \A i \in 0..(boost - 2) : ps[i + 1].startByte = U(ps[i].endByte + 1)
    /\ \A i, j \in DOMAIN ps : i # j => Range(ps[i]) \cap Range(ps[j]) = {}
    /\ UNION {Range(ps[i]) : i \in DOMAIN ps} = 0..(size - 1)
    /\ ps[boost - 1].endByte = U(size - 1)
    /\ boost = 1 => ps[0] = [startByte |-> 0, endByte |-> U(size - 1)]

\* C2 as stated: for every total_size and every N >= 1 the N ranges of
\* calculatePartBoundary are a partition of [0, total_size), total_size < N and
\* total_size = 0 included.
C2_PartitionForEverySize ==
    pc = "calculated" => IsPartition(parts, fileSize, Boost)

\* C2, amended: for every total_size and N with 1 <= N <= total_size the N ranges
\* of calculatePartBoundary satisfy start_i <= end_i < total_size, are contiguous
\* from 0, pairwise disjoint, cover exactly [0, total_size), the last part ends
\* at total_size - 1, and for N = 1 the single part is (0, total_size - 1).
C2_PartitionWhenSizeAtLeastN ==
    (pc = "calculated" /\ Boost <= fileSize) => IsPartition(parts, fileSize, Boost)

\* C2's case: an uneven plan of three or more parts has been calculated.
C2_Witness ==
    pc = "calculated" /\ Boost >= 3 /\ Boost < fileSize /\ fileSize % Boost # 0

\* Fetch returned nil: the multi-part fetch was finalized ("success") or the file
\* was found already downloaded ("already").
ReturnedNil == pc = "done" /\ result \in {"success", "already"}

\* The bytes of the output file that are in place, counted from offset start up
\* to the first byte no WriteAt has written (every written byte is non-zero).
ContiguousWritten(f, start) ==
    LET n == Len(f.data) - start
        written(k) == \A i \in 1..k : f.data[start + i] # 0
    IN  IF ~f.exists \/ n <= 0 THEN 0
        ELSE CHOOSE k \in 0..n : written(k) /\ (k = n \/ ~written(k + 1))

\* The ranges a journal's entries record.
JournalPlan(j) ==
    [i \in DOMAIN j.parts |->
        [startByte |-> j.parts[i].startByte, endByte |-> j.parts[i].endByte]]

\* C1: whenever a run of Fetch against the unchanging resource returns success,
\* after earlier runs that were cancelled or crashed at any point, the output
\* file has length total_size and holds the resource's bytes.
C1_SuccessIsByteExact ==
    ReturnedNil => (outFile.exists /\ outFile.data = ResourceData(fileSize))

\* C3: at every point of a multi-part run, for every part, the downloaded value
\* of the journal, in memory and on disk, is at most the number of contiguous
\* bytes written to the output file from the part's start_byte.
C3_JournalWithinWritten ==
    \A p \in DOMAIN parts :
        \A j \in {progress, journalFile} :
            HasPart(j, p) =>
                j.parts[p].downloaded <= ContiguousWritten(outFile, parts[p].startByte)

\* C4: in every state of a multi-part run each part's counter and each part's
\* journal downloaded value d satisfy 0 <= d <= end_byte - start_byte + 1.
C4_DownloadedWithinPart ==
    \A p \in DOMAIN parts :
        /\ p \in DOMAIN partDownloaded =>
              (0 <= partDownloaded[p] /\ partDownloaded[p] <= PartSize(parts[p]))
        /\ \A j \in {progress, journalFile} :
              HasPart(j, p) =>
                  (0 <= j.parts[p].downloaded
                   /\ j.parts[p].downloaded <= PartSize(parts[p]))

\* C5: when a multi-part run of Fetch returns success, every part's journal
\* entry has completed = true and downloaded = end_byte - start_byte + 1.
C5_SuccessAllPartsWhole ==
    (pc = "done" /\ result = "success") =>
        \A p \in DOMAIN parts :
            /\ HasPart(progress, p)
            /\ progress.parts[p].completed
            /\ progress.parts[p].downloaded = PartSize(parts[p])

\* C6: in every state, a journal entry (in memory or on disk) with completed =
\* true has downloaded = end_byte - start_byte + 1.
C6_CompletedIsWhole ==
    \A j \in {progress, journalFile} :
        \A i \in DOMAIN j.parts :
            j.parts[i].completed =>
                j.parts[i].downloaded = PartSize(JournalPlan(j)[i])

\* C7: if the part set of the journal that was loaded differs from the current
\* plan, the journal is invalidated: the run does not resume from it and no
\* counter is restored from it.
C7_MismatchInvalidates ==
    (loaded.exists /\ JournalPlan(loaded) # parts) =>
        /\ ~resumeFromProgress
        /\ \A p \in DOMAIN workers : workers[p].pc # "skipped"
        /\ pc \in {"truncate", "initProgress", "launch"} =>
              \A p \in DOMAIN partDownloaded : partDownloaded[p] = 0

\* C8: after a multi-part Fetch returned success no journal file exists at the
\* journal path, however the finalize steps and the periodic saver interleave.
C8_NoJournalAfterSuccess ==
    (pc = "done" /\ result = "success") => ~journalFile.exists

\* The journal a run resumes from holds, for part p, a downloaded value strictly
\* between 0 and the part's size.
ResumesInside(p) ==
    /\ resumeFromProgress
    /\ p \in DOMAIN parts
    /\ HasPart(loaded, p)
    /\ 0 < loaded.parts[p].downloaded
    /\ loaded.parts[p].downloaded < PartSize(parts[p])

\* C9: when a run resumes from a journal whose entry for part p has
\* 0 < downloaded < end_byte - start_byte + 1, the run's first range request for
\* p is bytes=(start_byte + downloaded)-(end_byte) and its first positioned
\* write for p is at offset start_byte + downloaded.
C9_ResumeFromDownloaded ==
    \A p \in DOMAIN firstReq :
        ResumesInside(p) =>
            LET from == parts[p].startByte + loaded.parts[p].downloaded
            IN  /\ firstReq[p] # <<>> => firstReq[p] = <<from, parts[p].endByte>>
                /\ firstWrite[p] # <<>> => firstWrite[p] = <<from>>

\* C9's case: a part resumed from inside its range has had its first write.
C9_Witness ==
    \E p \in DOMAIN firstReq :
        ResumesInside(p) /\ firstReq[p] # <<>> /\ firstWrite[p] # <<>>

\* C10: every positioned write of the worker for part p falls within
\* [start_byte_p, end_byte_p], whatever status (206 or 200) and body the server
\* returns.
C10_WritesInsideOwnPart ==
    \A p \in DOMAIN writes : writes[p] \subseteq Range(parts[p])

\* C11: with N > 1, an attempt of the part fetcher whose range request was
\* answered with status 200 does not end as a success.
C11_OkStatusNotSuccessMultiPart ==
    Boost > 1 =>
        \A p \in DOMAIN workers :
            workers[p].pc = "done" => workers[p].status # 200

\* The worker of part p has returned a cancellation error.
ReturnedCancellation(p) ==
    workers[p].pc = "failed" /\ workers[p].lastErr = "cancel"

\* C13: when an attempt of the part fetcher fails with a cancellation error the
\* retry controller returns at once: the worker makes no further attempt and
\* sleeps no backoff delay.
C13_CancellationNotRetried ==
    \A p \in DOMAIN workers :
        workers[p].lastErr = "cancel" => workers[p].pc = "failed"

\* The retry controller's schedule in a state: attempt i is under way or was the
\* last one, i < retries; the delays slept so far are those before attempts
\* 1..i, the one before attempt k being 2^(k-1) seconds; a worker that gave up
\* has queued an error that wraps the last attempt's cause.
RetrySchedule ==
    \A p \in DOMAIN workers :
        /\ workers[p].attempt < env.retries
        /\ Len(workers[p].slept) = workers[p].attempt
        /\ \A k \in 1..workers[p].attempt : workers[p].slept[k] = 2 ^ (k - 1)
        /\ workers[p].pc = "failed" =>
              /\ workers[p].lastErr # "none"
              /\ \E n \in DOMAIN errCh : errCh[n] = workers[p].lastErr

\* The retry controller's steps: after a success nothing more happens for the
\* part, and a new attempt only follows a failed one.
RetrySteps ==
    \A p \in DOMAIN workers \cap DOMAIN workers' :
        /\ workers[p].pc \in {"done", "failed"} => workers'[p] = workers[p]
        /\ workers'[p].attempt # workers[p].attempt =>
              /\ workers'[p].attempt = workers[p].attempt + 1
              /\ workers'[p].lastErr # "none"

\* C14: the retry controller invokes the part fetcher at most retries times for
\* a part and stops at the first success; no delay precedes attempt 0, the delay
\* before attempt i >= 1 is 2^(i-1) seconds, no delay follows the last failed
\* attempt, and on exhaustion the error returned wraps the last cause.
C14_RetryBackoffSchedule == [](RetrySchedule) /\ [][RetrySteps]_vars

\* C14's case: a worker has used up its attempts, after two backoff delays.
C14_Witness ==
    \E p \in DOMAIN workers :
        /\ workers[p].pc = "failed"
        /\ workers[p].attempt = env.retries - 1
        /\ Len(workers[p].slept) >= 2

\* C15: if the external cancellation fires during a multi-part fetch and reaches
\* a worker, Fetch returns a cancellation error, and when it returns the journal
\* file and the partial output file both exist.
C15_CancelReturnsCancellation ==
    (pc = "done" /\ \E p \in DOMAIN workers : ReturnedCancellation(p)) =>
        /\ result = "cancel"
        /\ journalFile.exists
        /\ outFile.exists

\* C16: if the run was cancelled and a worker returned a cancellation error,
\* Fetch returns a cancellation error even when another worker has queued a
\* failure of another kind.
C16_CancellationTakesPrecedence ==
    (/\ pc = "done"
     /\ cancelled
     /\ \E p \in DOMAIN workers : ReturnedCancellation(p)
     /\ \E q \in DOMAIN workers :
            workers[q].pc = "failed" /\ workers[q].lastErr = "fail")
        => result = "cancel"

\* fetchMultiPart is past wg.Wait, or Fetch has returned.
PastWait == pc \in {"finalSave", "complete", "remove", "done"}

\* In a state: past the wait every launched worker has stopped, and a Fetch
\* that returned with a worker's error in the queue returned the first queued
\* error, which is some worker's, and left a journal in place.
WaitsForWorkers ==
    /\ PastWait => \A p \in DOMAIN workers : Finished(workers[p])
    /\ (pc = "done" /\ errCh # <<>>) =>
          /\ result = Head(errCh)
          /\ \E p \in DOMAIN workers :
                 workers[p].pc = "failed" /\ workers[p].lastErr = result
          /\ journalFile.exists

\* In a step: once past the wait (the file is closed on return) the output file
\* is not written; a run marks its journal completed, and removes the journal
\* file, only with no error in the queue (a journal that a run loads may have
\* been marked by the run before).
NoWriteAfterWait ==
    /\ PastWait => outFile' = outFile
    /\ (progress'.completed /\ ~progress.completed) =>
          (errCh = <<>> /\ pc \in {"prepare", "complete"})
    /\ (journalFile.exists /\ ~journalFile'.exists) =>
          (errCh = <<>> /\ pc = "remove")

\* C17: a multi-part Fetch does not return, and the output file is not closed,
\* until every launched worker has stopped, so no positioned write happens after
\* the file is closed; if a worker failed, Fetch returns the first error of the
\* queue and neither marks the journal completed nor removes it.
C17_ReturnsAfterWorkersStopped == [](WaitsForWorkers) /\ [][NoWriteAfterWait]_vars

\* C17's case: Fetch returned a worker's error after another worker had written.
C17_Witness ==
    /\ pc = "done"
    /\ errCh # <<>>
    /\ \E p \in DOMAIN workers : workers[p].pc = "done" /\ writes[p] # {}

\* The journal file on disk was written for another URI or another file size
\* than the running Downloader's.
ForeignJournal ==
    journalFile.exists /\ (journalFile.uri # uri \/ journalFile.fileSize # fileSize)

\* C18: a run with resume on that finds a journal written for another URI (or
\* another file_size) under its file name ignores the journal, does not delete
\* the output file and plans afresh: no counter is restored, every part is
\* fetched from its start_byte, and if the run returns success the file holds
\* the bytes of the run's own resource.
C18_OtherURIPlansAfresh ==
    (ForeignJournal /\ pc \in {"truncate", "initProgress", "done"}) =>
        /\ outFile.exists
        /\ ~progress.exists
        /\ ~resumeFromProgress
        /\ \A p \in DOMAIN partDownloaded : partDownloaded[p] = 0
        /\ ReturnedNil => outFile.data = ResourceDataOf(uri, fileSize)

\* C12: at every instant, a crash at any step of saveProgress included, the
\* file at the journal path is absent or a whole, parseable document, the one
\* the latest completed save wrote; it is never a document written in part.
C12_JournalNeverPartial ==
    journalFile.exists =>
        /\ journalWhole
        /\ DOMAIN journalFile.parts = DOMAIN saved.counters
        /\ \A i \in DOMAIN journalFile.parts :
              /\ journalFile.parts[i].downloaded = saved.counters[i]
              /\ journalFile.parts[i].completed = saved.flags[i]

\* C12's case: the process died while saveProgress was writing the temp file,
\* with an earlier journal in place.
C12_Witness ==
    /\ pc = "idle"
    /\ journalFile.exists
    /\ tmpFile.exists
    /\ ~Parseable(tmpFile.doc)

\* The journal file is of the running Downloader's download.
JournalMatches ==
    journalFile.exists /\ journalFile.uri = uri /\ journalFile.fileSize = fileSize

\* After loadProgress: no error and a nil journal exactly when the file is
\* absent or of another URI or file size.
LoadNilExactly ==
    pc = "loaded" => ((result = "none" /\ ~progress.exists) <=> ~JournalMatches)

\* loadProgress leaves the disk as it is.
LoadLeavesDisk ==
    pc = "load" =>
        (journalFile' = journalFile /\ journalWhole' = journalWhole
         /\ tmpFile' = tmpFile)

\* C19: loadProgress returns no error and leaves the in-memory journal nil in
\* exactly these cases: the journal file is absent, or its uri or file_size
\* differs from the current descriptor; in the latter case the journal file on
\* disk is left as it is.
C19_LoadNilOnAbsentOrMismatch == [](LoadNilExactly) /\ [][LoadLeavesDisk]_vars

\* C19's case: a journal of the same URI and another file size was loaded.
C19_Witness ==
    /\ pc = "loaded"
    /\ journalFile.exists
    /\ journalFile.uri = uri
    /\ journalFile.fileSize # fileSize
    /\ ~progress.exists
    /\ result = "none"

\* C20: after a saveProgress that succeeded, loadProgress by a Downloader with
\* the same uri and file_size yields a journal in which every part's downloaded
\* is the part's counter at save time and every part's completed is the
\* in-memory flag at save time.
C20_JournalRoundTrip ==
    (pc = "loaded" /\ JournalMatches) =>
        /\ progress.exists
        /\ DOMAIN progress.parts = DOMAIN saved.counters
        /\ \A i \in DOMAIN progress.parts :
              /\ progress.parts[i].downloaded = saved.counters[i]
              /\ progress.parts[i].completed = saved.flags[i]

\* C20's case: a journal with a part under way and a part completed was saved
\* and loaded.
C20_Witness ==
    /\ pc = "loaded"
    /\ progress.exists
    /\ \E i, j \in DOMAIN progress.parts :
          /\ progress.parts[i].completed
          /\ ~progress.parts[j].completed
          /\ progress.parts[j].downloaded > 0

\* With resume on, the output file is there with at least total_size bytes and
\* the journal file holds no active journal of this download.
CompleteFileNoActiveJournal ==
    /\ Resume
    /\ outFile.exists
    /\ Len(outFile.data) >= fileSize
    /\ ~(JournalMatches /\ ~journalFile.completed)

\* Fetch's step from its file check: in the case above it returns success and
\* leaves the output file as it is, and in no other case does it return there.
ReturnsAlready ==
    (pc = "prepare" /\ pc' \notin {"prepare", "idle"}) =>
        IF CompleteFileNoActiveJournal
        THEN pc' = "done" /\ result' = "already" /\ outFile' = outFile
        ELSE pc' # "done"

\* A Fetch that returned this way has launched no worker and issued no request.
AlreadyWithoutRequest ==
    (pc = "done" /\ result = "already") =>
        (workers = NoParts /\ firstReq = NoHistory /\ writes = NoHistory)

\* C21: with resume on, if the output file exists with size >= total_size and
\* there is no active journal (none loaded, or the loaded one is completed),
\* Fetch returns success without issuing a GET request and without modifying
\* the output file.
C21_AlreadyDownloadedUntouched == [](AlreadyWithoutRequest) /\ [][ReturnsAlready]_vars

\* C21's case: a run found the whole resource in place and returned.
C21_Witness ==
    /\ pc = "done"
    /\ result = "already"
    /\ outFile.data = ResourceData(fileSize)

\* The entry of part p in the journal the run resumes from is completed.
ResumedCompleted(p) ==
    resumeFromProgress /\ HasPart(loaded, p) /\ loaded.parts[p].completed

\* In a state: a part completed in the journal a run resumes from has no
\* worker, no request and no write in the run.
CompletedPartsSkipped ==
    \A p \in DOMAIN workers :
        ResumedCompleted(p) =>
            (workers[p].pc = "skipped" /\ firstReq[p] = <<>> /\ writes[p] = {})

\* In a step: a worker that enters an attempt with a journal entry holding
\* downloaded >= end_byte - start_byte + 1 marks the part completed and returns
\* success, and issues no request.
WholePartShortCircuits ==
    \A p \in DOMAIN workers \cap DOMAIN workers' :
        (/\ workers[p].pc = "begin"
         /\ workers'[p] # workers[p]
         /\ HasPart(progress, p)
         /\ progress.parts[p].downloaded >= PartSize(parts[p]))
            => /\ workers'[p].pc = "done"
               /\ progress'.parts[p].completed
               /\ firstReq'[p] = firstReq[p]
               /\ outFile' = outFile

\* C22: on resume no worker is launched and no range request is issued for a
\* part whose journal entry is completed; and a worker whose journal entry has
\* downloaded >= end_byte - start_byte + 1 marks the part completed and returns
\* success without issuing a request.
C22_CompletedPartsNotFetched ==
    [](CompletedPartsSkipped) /\ [][WholePartShortCircuits]_vars

\* C22's case: a resumed run skipped a completed part and a worker found its
\* part whole in the journal.
C22_Witness ==
    \E p, q \in DOMAIN workers :
        /\ ResumedCompleted(p)
        /\ workers[p].pc = "skipped"
        /\ resumeFromProgress
        /\ ~loaded.parts[q].completed
        /\ workers[q].pc = "done"
        /\ firstReq[q] = <<>>

\* ------------------------------------------------------------------------ C23
\* The request fetchSingleStream sent, if any: its Range header and the offset
\* its body is written from.
SingleSent == single.pc # "none"
SingleRanged == single.range # <<>>
SingleStart == IF SingleRanged THEN single.range[1] ELSE 0

\* C23: in single-stream mode the GET carries "Range: bytes=<existing>-" exactly
\* when resume is on and the output file already has existing > 0 bytes; a fresh
\* request is accepted only with status 200 and a resumed one only with 206; any
\* other status makes Fetch fail without writing to the file; the body is
\* written sequentially from file offset existing (0 when fresh).
SingleStreamRequest ==
    SingleSent =>
        /\ SingleRanged <=> (Resume /\ single.existing > 0)
        /\ SingleRanged => single.range = <<single.existing>>
        /\ SingleStart = single.existing
        /\ single.pc \in {"stream", "done"} =>
               single.status = (IF SingleRanged THEN 206 ELSE 200)
        /\ single.status # (IF SingleRanged THEN 206 ELSE 200) =>
               /\ single.pc = "failed"
               /\ single.wrote = <<>>
               /\ pc = "done" /\ result \in {"fail", "cancel"}
        /\ \A i \in 1..Len(single.wrote) : single.wrote[i] = SingleStart + i - 1

\* A single-stream request that is not accepted leaves the file as it is.
RejectedWithoutWriting ==
    (single.pc = "none" /\ single'.pc = "failed") => outFile' = outFile

C23_SingleStreamStatusAndOffset ==
    [](SingleStreamRequest) /\ [][RejectedWithoutWriting]_vars

\* A resumed single-stream fetch, answered with 206, has written the rest of
\* the resource from the end of the existing file and returned success.
C23_Witness ==
    /\ pc = "done" /\ result = "success"
    /\ single.pc = "done"
    /\ single.existing > 0
    /\ single.range = <<single.existing>>
    /\ single.status = 206
    /\ single.wrote # <<>>
    /\ single.wrote[1] = single.existing

\* ------------------------------------------------------------------------ C24
\* C24: after a single-stream Fetch returns success, no journal file remains at
\* the journal path, whatever journal file existed when the run started.
C24_NoJournalAfterSingleStream ==
    (pc = "done" /\ result = "success" /\ single.pc = "done") => ~journalFile.exists

\* ------------------------------------------------------------------------ C25
RECURSIVE ReportedBefore(_, _)
\* The bytes the sink reported for the calls before the i-th.
ReportedBefore(calls, i) ==
    IF i <= 1 THEN 0 ELSE ReportedBefore(calls, i - 1) + calls[i - 1].n

\* C25: every write of an offsetWriter started at offset o reaches the sink as a
\* positioned write at the current offset, and the offset then advances by the
\* bytes the sink reported, also for short and failed writes; buffers of lengths
\* a and b written in full reach the sink at o and o + a and leave the offset
\* at o + a + b.
C25_OffsetWriterAdvancesByReported ==
    ow.made =>
        /\ \A i \in 1..Len(ow.calls) :
               ow.calls[i].at = ow.start + ReportedBefore(ow.calls, i)
        /\ ow.offset = ow.start + ReportedBefore(ow.calls, Len(ow.calls) + 1)
        /\ (/\ Len(ow.calls) = 2
            /\ \A i \in 1..2 : ow.calls[i].n = ow.calls[i].len)
           => /\ ow.calls[1].at = ow.start
              /\ ow.calls[2].at = ow.start + ow.calls[1].len
              /\ ow.offset = ow.start + ow.calls[1].len + ow.calls[2].len

\* A short write followed by a full one, from an offset above 0.
C25_Witness ==
    /\ ow.made /\ ow.start > 0
    /\ Len(ow.calls) = 2
    /\ ow.calls[1].n > 0 /\ ow.calls[1].n < ow.calls[1].len
    /\ ow.calls[2].n = ow.calls[2].len /\ ow.calls[2].len > 0
    /\ ow.calls[2].at = ow.start + ow.calls[1].n
    /\ ow.offset = ow.calls[2].at + ow.calls[2].len

\* ------------------------------------------------------------------------ C26
RECURSIVE Forwarded(_)
\* The bytes handed downstream, in the order they were handed.
Forwarded(chunks) ==
    IF chunks = <<>> THEN <<>>
    ELSE Forwarded(SubSeq(chunks, 1, Len(chunks) - 1)) \o chunks[Len(chunks)].data

RECURSIVE ForwardedBytes(_)
\* The bytes downstream reported written.
ForwardedBytes(chunks) ==
    IF chunks = <<>> THEN 0
    ELSE ForwardedBytes(SubSeq(chunks, 1, Len(chunks) - 1)) + chunks[Len(chunks)].n

\* C26: with a limiter set and no cancellation or downstream error, Write(p)
\* forwards p downstream as consecutive chunks of at most the chunk size, in
\* order, each after the limiter admitted exactly its size, and returns len(p);
\* with no limiter, Write passes p through in one downstream write.
C26_RateLimitedForwardsAll ==
    rl.pc = "returned" =>
        /\ (rl.burst > 0 /\ ~rl.cancelled /\ rl.err # "downstream") =>
               /\ rl.ret = rl.len
               /\ rl.err = "nil"
               /\ Forwarded(rl.forwarded) = Buffer(rl.len)
               /\ \A i \in 1..Len(rl.forwarded) :
                      /\ Len(rl.forwarded[i].data) <= MaxChunk
                      /\ i <= Len(rl.admitted)
                      /\ rl.admitted[i] = Len(rl.forwarded[i].data)
        /\ rl.burst = 0 =>
               /\ Len(rl.forwarded) = 1
               /\ rl.forwarded[1].data = Buffer(rl.len)
               /\ rl.ret = rl.forwarded[1].n

\* ------------------------------------------------------------------------ C27
\* C27: if the limiter's wait for a chunk is cancelled, Write returns the bytes
\* already forwarded downstream before that wait (0 before the first chunk)
\* with the cancellation error, and forwards nothing further.
CancelledWaitReturnsForwarded ==
    (rl.pc = "returned" /\ rl.err = "cancelled") =>
        /\ rl.ret = ForwardedBytes(rl.forwarded)
        /\ rl.forwarded = <<>> => rl.ret = 0
        /\ Len(rl.forwarded) = Len(rl.admitted)
        /\ rl.ret < rl.len

\* A Write that has returned hands nothing more downstream.
NothingForwardedAfterReturn ==
    rl.pc = "returned" => rl'.forwarded = rl.forwarded

C27_CancelledWaitReturnsWritten ==
    [](CancelledWaitReturnsForwarded) /\ [][NothingForwardedAfterReturn]_vars

\* The wait for the second chunk was cancelled: the first chunk went
\* downstream and its bytes are returned with the cancellation error.
C27_Witness ==
    /\ rl.pc = "returned" /\ rl.err = "cancelled"
    /\ Len(rl.forwarded) = 1
    /\ rl.ret = MaxChunk
    /\ rl.len > MaxChunk

\* ------------------------------------------------------------------------ C28
\* A decimal numeral of a non-negative integer that fits the unsigned word.
IsUnsigned(s) ==
    /\ s # <<>>
    /\ \A i \in 1..Len(s) : s[i] \in DOMAIN Digit
    /\ ParseUint(s) \in 0..(UintMod - 1)

\* "bytes" in any mix of upper and lower case.
EqualsBytesIgnoringCase(s) ==
    /\ Len(s) = 5
    /\ s[1] \in {"b", "B"} /\ s[2] \in {"y", "Y"} /\ s[3] \in {"t", "T"}
    /\ s[4] \in {"e", "E"} /\ s[5] \in {"s", "S"}

ProbeFailed == pc = "done" /\ result = "probeError"

\* C28: the probe fails when the HEAD status is not 200 or when Content-Length
\* is missing or no non-negative 64-bit integer; on success supports_range is
\* true iff Accept-Ranges equals "bytes" case-insensitively; a Fetch whose probe
\* fails returns the error without creating the output file or a journal file.
ProbeOutcome ==
    pc # "idle" =>
        /\ (\/ head.status # 200
            \/ head.contentLength = <<>>
            \/ ~IsUnsigned(head.contentLength)) => ProbeFailed
        /\ ~ProbeFailed =>
               /\ supportsRange <=> EqualsBytesIgnoringCase(head.acceptRanges)
               /\ fileSize = ParseUint(head.contentLength)

FailedProbeLeavesDisk ==
    ProbeFailed' => /\ outFile' = outFile
                    /\ journalFile' = journalFile
                    /\ tmpFile' = tmpFile

C28_ProbeFailuresAndRangeSupport ==
    [](ProbeOutcome) /\ [][FailedProbeLeavesDisk]_vars

\* A first Fetch is answered 200 with a negative Content-Length: it has failed
\* and there is neither an output file nor a journal file.
C28_Witness ==
    /\ ProbeFailed
    /\ run = 1
    /\ head.status = 200
    /\ head.contentLength = <<"-", "1">>
    /\ ~outFile.exists /\ ~journalFile.exists

\* ------------------------------------------------------------------------ C29
\* C29: every read and every write of the in-memory journal, and every save, is
\* made while holding the journal mutex: no worker, saver or coordinator step
\* touches the journal without it while another task may be running.
C29_JournalAccessesUnderMutex == unlocked = {}

\* ------------------------------------------------------------------------ C30
\* A worker returns nil for part p in this step: it has called
\* updatePartProgress(p, ..., true).
MarksCompleted(p) ==
    /\ p \in DOMAIN workers /\ p \in DOMAIN workers'
    /\ workers[p].pc \in {"begin", "stream"}
    /\ workers'[p].pc = "done"

\* C30: within one run each part's journal entry goes from completed = false
\* to completed = true at most once and is never reset to false; a part whose
\* entry was completed when the run started is never marked completed again.
CompletedMarkedOnce ==
    /\ \A p \in DOMAIN parts :
          MarksCompleted(p) => ~(HasPart(progress, p) /\ progress.parts[p].completed)
    /\ (run' = run /\ progress.exists /\ progress'.exists) =>
          \A p \in DOMAIN parts :
             (HasPart(progress, p) /\ progress.parts[p].completed) =>
                (HasPart(progress', p) /\ progress'.parts[p].completed)

C30_CompletedMarkedOnce == [][CompletedMarkedOnce]_vars

\* ------------------------------------------------------------------------ C31
\* C31: in multi-part mode the output file's size equals total_size before the
\* first positioned write by any worker, on every path into the fetch stage.
SizedBeforeWrites ==
    (pc = "wait" /\ outFile' # outFile) =>
        (outFile.exists /\ Len(outFile.data) = fileSize)

C31_SizedBeforeFirstWrite == [][SizedBeforeWrites]_vars

\* ------------------------------------------------------------------------ C32
\* Every part entry of the journal j is completed.
AllEntriesCompleted(j) == \A p \in DOMAIN j.parts : j.parts[p].completed

\* C32: the journal's top-level completed flag is set, and persisted, as true
\* only when every part entry present in the journal is completed: no saved
\* journal has completed = true while one of its entries has completed = false.
C32_CompletedOnlyWithAllParts ==
    /\ (progress.exists /\ progress.completed) => AllEntriesCompleted(progress)
    /\ (journalFile.exists /\ journalFile.completed) => AllEntriesCompleted(journalFile)

\* ------------------------------------------------------------------------ C33
\* The run loaded a matching journal and found no output file.
JournalWithoutOutput ==
    /\ pc \notin {"idle", "plan", "prepare"}
    /\ loaded.exists
    /\ ~Resume

\* The journal j is the fresh journal of the run's plan.
FreshJournal(j) ==
    /\ j.exists /\ ~j.completed
    /\ j.uri = uri /\ j.fileSize = fileSize
    /\ DOMAIN j.parts = DOMAIN parts
    /\ \A p \in DOMAIN parts :
          /\ j.parts[p].downloaded = 0 /\ ~j.parts[p].completed
          /\ j.parts[p].startByte = parts[p].startByte
          /\ j.parts[p].endByte = parts[p].endByte

RecordsCounters(j) ==
    /\ j.exists
    /\ \A p \in DOMAIN parts :
          HasPart(j, p) /\ j.parts[p].downloaded = partDownloaded[p]

\* A multi-part Fetch has returned an error.
MultiPartError ==
    /\ pc = "done" /\ result \in {"fail", "cancel"}
    /\ MultiPart /\ workers # NoParts

\* The step in which a multi-part Fetch returns an error: it is the final
\* save's, taken after every worker stopped and the saver was told to stop.
ErrorAfterFinalSave ==
    (pc # "done" /\ MultiPartError') =>
        /\ pc = "finalSave"
        /\ saverCancelled
        /\ \A p \in DOMAIN workers : workers[p].pc \in {"skipped", "done", "failed"}
        /\ journalFile' = saveProgress(progress, partDownloaded)

C35_JournalErrorsNotFatal ==
    /\ (pc = "done" /\ result \in {"fail", "cancel"}) =>
          /\ errCh # <<>>
          /\ result = Head(errCh)
          /\ \E p \in DOMAIN workers : workers[p].pc = "failed"
    /\ (pc = "done" /\ result = "success") =>
          \A p \in DOMAIN workers : workers[p].pc \in {"skipped", "done"}

\* A first run returned success although its completion save and the delete
\* failed: the journal file of an earlier, successful save is still there.
C35_Witness ==
    /\ run = 1
    /\ pc = "done" /\ result = "success"
    /\ journalFile.exists /\ ~journalFile.completed
    /\ \E p \in DOMAIN parts : journalFile.parts[p].downloaded > 0

\* ------------------------------------------------------------------------ C36
\* Worker p makes a positioned write in this step.
WorkerWrites(p) ==
    /\ p \in DOMAIN workers /\ p \in DOMAIN workers'
    /\ workers[p].pc = "stream"
    /\ workers'[p].offset = workers[p].offset + 1

\* The workers are launched (the fetch stage) before and after the step.
FetchStage == workers # NoParts /\ workers' # NoParts

\* C36: during the fetch stage each part counter is modified only by that
\* part's own worker and only by adding the byte count of a positioned write
\* that wrote n > 0 bytes, so every counter is monotonically non-decreasing; the
\* coordinator writes counters only before any worker is launched.
CounterOwnedByWorker ==
    /\ FetchStage =>
          /\ DOMAIN partDownloaded' = DOMAIN partDownloaded
          /\ \A p \in DOMAIN partDownloaded :
                /\ partDownloaded'[p] >= partDownloaded[p]
                /\ partDownloaded'[p] # partDownloaded[p] => WorkerWrites(p)
                /\ WorkerWrites(p) =>
                      /\ partDownloaded'[p] = partDownloaded[p] + 1
                      /\ \A q \in DOMAIN partDownloaded \ {p} :
                            partDownloaded'[q] = partDownloaded[q]
    /\ (partDownloaded' # partDownloaded /\ ~FetchStage) =>
          /\ workers = NoParts \/ workers' = NoParts
          /\ pc \in {"idle", "done", "plan", "initProgress"} \/ pc' = "idle"

C36_CountersOwnedAndMonotone == [][CounterOwnedByWorker]_vars

\* In the fetch stage of a resumed run a worker has added to the counter the
\* coordinator restored from the journal.
C36_Witness ==
    /\ pc = "wait" /\ resumeFromProgress
    /\ \E p \in DOMAIN parts :
          /\ HasPart(loaded, p)
          /\ loaded.parts[p].downloaded > 0
          /\ partDownloaded[p] > loaded.parts[p].downloaded


\* ---- C37
\* C37: with a global bandwidth limit L > 0, in multi-part mode with N parts,
\* each part's limiter has both its rate and its burst equal to max(L / N, floor)
\* (integer division; the floor is the source's 1024), and the rates of the N
\* parts together do not exceed L.
C37_PartLimitsWithinGlobal ==
    (MultiPart /\ BandwidthLimit > 0 /\ rl.pc # "none") =>
        /\ rl.rate = perPartLimit(BandwidthLimit, Boost)
        /\ rl.burst = rl.rate
        /\ rl.rate >= MinPartLimit
        /\ rl.rate >= BandwidthLimit \div Boost
        /\ rl.rate \in {MinPartLimit, BandwidthLimit \div Boost}
        /\ Boost * rl.rate <= BandwidthLimit

\* ---- C38
\* C38: whenever a bandwidth limit is configured, every chunk size asked of the
\* limiter is at most the limiter's burst (the per-part limit in multi-part
\* mode, L in single-stream mode), so no wait fails for exceeding the burst.
C38_ChunkWithinBurst ==
    (BandwidthLimit > 0 /\ rl.pc # "none") =>
        /\ (rl.pc = "wait" /\ rl.written < rl.len) =>
               chunkSize(rl.len, rl.written) <= rl.burst
        /\ rl.err # "burst"

\* ---- C40
\* C40: a worker never blocks when it reports its error: the error queue has
\* room for N errors, there are at most N workers, each sends at most one error,
\* and every send happens while the coordinator still waits, before it closes
\* the queue; so no worker is stuck on a full queue and none sends on a closed
\* one.
QueuedErrors == Cardinality({p \in DOMAIN workers : workers[p].pc = "failed"})

ErrorQueueHasRoom ==
    /\ Cardinality(DOMAIN workers) <= ErrChCapacity
    /\ Len(errCh) = QueuedErrors
    /\ Len(errCh) <= ErrChCapacity
    /\ \A p \in DOMAIN workers :
          ~Finished(workers[p]) => Len(errCh) < ErrChCapacity

SendWhileOpen ==
    Len(errCh') > Len(errCh) =>
        /\ pc = "wait" /\ pc' = "wait"
        /\ ~saverCancelled
        /\ Len(errCh') = Len(errCh) + 1
        /\ \E p \in DOMAIN workers :
              /\ ~Finished(workers[p])
              /\ workers'[p].pc = "failed"
              /\ \A q \in DOMAIN workers \ {p} : workers'[q] = workers[q]

C40_ErrorSendNeverBlocks == [](ErrorQueueHasRoom) /\ [][SendWhileOpen]_vars

C40_Witness ==
    /\ pc = "finalSave"
    /\ Boost > 1
    /\ Len(errCh) = ErrChCapacity

\* ---- C39
\* C39: every Fetch eventually returns, provided each HTTP request eventually
\* completes or fails: each worker makes at most dl.Retries attempts, the
\* coordinator's wait ends once all workers have stopped, and the saver stops
\* after the cancel.
C39_FetchReturns ==
    /\ Running ~> (pc = "done" /\ result # "none")
    /\ (saver = "running") ~> (saver = "stopped")
    /\ [](\A p \in DOMAIN workers : workers[p].attempt < env.retries)

C39_Witness ==
    /\ pc = "done"
    /\ result # "none"
    /\ saver = "stopped"
    /\ \E p \in DOMAIN workers :
          workers[p].pc = "failed" /\ workers[p].attempt = env.retries - 1
             /\ Len(workers[p].slept) > 0
====
